---- MODULE Spec2Model ----
(***************************************************************************)
(* Wire and session layer of the async MySQL driver (src/driver.py and     *)
(* src/protocol/).                                                         *)
(*                                                                         *)
(* A byte is an integer 0..255 and a byte string is a sequence of bytes.   *)
(* A framer object (ProtoPlain / ProtoCompressed) is a record              *)
(*   [compressed, threshold, seq, seq_compressed, read_buffer,             *)
(*    write_buffer]                                                        *)
(* and an "io" value pairs a framer with the two byte channels its writer  *)
(* and reader callbacks are bound to:  [f, out, inp].                      *)
(*                                                                         *)
(* MAX_PACKET is 2^24-1 in the source, which is also the largest value of  *)
(* the 3-byte length fields.  The model scales it down (and the capacity   *)
(* of the 3-byte fields with it); every operator is written in terms of    *)
(* MAX_PACKET, never of its value.                                         *)
(***************************************************************************)
EXTENDS Integers, Sequences, FiniteSets, TLC

\* ------------------------------------------------------------------ bounds
MAX_PACKET == 6

MidThreshold == 5

MaxSends == 2

MaxFragments == 3

MaxReplies == 2

MaxEnvelopes == 3

MaxCommands == 3

\* ------------------------------------------------------------ small helpers
Min(a, b) == IF a < b THEN a ELSE b

Drop(s, n) == SubSeq(s, n + 1, Len(s))

Take(s, n) == SubSeq(s, 1, Min(n, Len(s)))

RECURSIVE Flatten(_)
Flatten(ss) == IF ss = <<>> THEN <<>> ELSE Head(ss) \o Flatten(Tail(ss))

\* ------------------------------------------------------------- byte codecs
RECURSIVE to_int(_)
to_int(value) ==
    IF value = <<>> THEN 0 ELSE Head(value) + 256 * to_int(Tail(value))

RECURSIVE to_bytes(_, _)
to_bytes(length, value) ==
    IF length = 0 THEN <<>>
    ELSE <<value % 256>> \o to_bytes(length - 1, value \div 256)

\* int.to_bytes raises OverflowError when the value does not fit; a 3-byte
\* field holds at most MAX_PACKET, a 1-byte field at most 255.
to_bytes_overflows(length, value) ==
    IF length = 3 THEN value > MAX_PACKET ELSE value > 255

next_seq_no_wrap(seq) == seq + 1

next_seq(seq) == (seq + 1) % 256

split_no_trailing_empty(data) ==
    LET length == Len(data)
        n == (length + MAX_PACKET - 1) \div MAX_PACKET
    IN  IF length = 0 THEN << <<>> >>
        ELSE [i \in 1..n |->
                SubSeq(data, (i - 1) * MAX_PACKET + 1, Min(i * MAX_PACKET, length))]

split_always_trailing_empty(data) ==
    LET length == Len(data)
        n == (length + MAX_PACKET - 1) \div MAX_PACKET
    IN  [i \in 1..n |->
            SubSeq(data, (i - 1) * MAX_PACKET + 1, Min(i * MAX_PACKET, length))]
        \o << <<>> >>

split(data) ==
    LET length == Len(data)
        n == (length + MAX_PACKET - 1) \div MAX_PACKET
    IN  [i \in 1..n |->
            SubSeq(data, (i - 1) * MAX_PACKET + 1, Min(i * MAX_PACKET, length))]
        \o (IF length % MAX_PACKET = 0 THEN << <<>> >> ELSE <<>>)

\* --------------------------------------------------------------- zlib model
\* zlib is an external library.  It is modelled by a run-length codec: the
\* stream is a magic symbol followed by one symbol per run, so the output may
\* be shorter or longer than the input, decompress inverts compress, and a
\* byte string that is not a stream is rejected.
ZMagic == 0 - 1

ZSym(count, val) == count * 256 + val

RECURSIVE RunLen(_)
RunLen(data) ==
    IF Len(data) <= 1 THEN Len(data)
    ELSE IF data[2] = data[1] THEN 1 + RunLen(Tail(data)) ELSE 1

RECURSIVE Runs(_)
Runs(data) ==
    IF data = <<>> THEN <<>>
    ELSE LET k == RunLen(data)
         IN  <<ZSym(k, data[1])>> \o Runs(Drop(data, k))

compress(body) == <<ZMagic>> \o Runs(body)

RECURSIVE Expand(_)
Expand(syms) ==
    IF syms = <<>> THEN <<>>
    ELSE [i \in 1..(Head(syms) \div 256) |-> Head(syms) % 256] \o Expand(Tail(syms))

decompress(data) ==
    IF data = <<>> \/ data[1] # ZMagic
       \/ \E i \in 2..Len(data) : data[i] < 256
    THEN [ok |-> FALSE, data |-> <<>>]
    ELSE [ok |-> TRUE, data |-> Expand(Tail(data))]

\* ------------------------------------------------------------ raw channel
\* The WRITER callback handed to the framer (create_stream_writer.drain):
\* the bytes are appended to the outbound channel.
channel_write(io, data) == [io EXCEPT !.out = @ \o data]

\* The READER callback handed to the framer (create_stream_reader.read):
\* exactly n bytes, or an IO error (EOF / timeout) when they do not arrive.
channel_read(io, n) ==
    IF Len(io.inp) < n
    THEN [ok |-> FALSE, err |-> "io", data |-> <<>>, io |-> io]
    ELSE [ok |-> TRUE, err |-> "none", data |-> SubSeq(io.inp, 1, n),
          io |-> [io EXCEPT !.inp = Drop(@, n)]]

\* ----------------------------------------------------------------- writers
ProtoCompressed_write(io, data) ==
    [io EXCEPT !.f.write_buffer = @ \o data]

\* create_packet_writer.write_packet; its drain is the raw channel for
\* ProtoPlain and ProtoCompressed.write for ProtoCompressed.
write_packet(io, seq, body) ==
    LET out == to_bytes(3, Len(body)) \o to_bytes(1, seq) \o body
    IN  IF to_bytes_overflows(3, Len(body)) \/ to_bytes_overflows(1, seq)
        THEN [ok |-> FALSE, err |-> "overflow", io |-> io, entry |-> <<>>]
        ELSE [ok |-> TRUE, err |-> "none",
              io |-> IF io.f.compressed THEN ProtoCompressed_write(io, out)
                     ELSE channel_write(io, out),
              entry |-> [seq |-> seq, body |-> body]]

compressed_write_packet_geq(io, seq, body) ==
    LET big == Len(body) >= io.f.threshold
        payload == IF big THEN compress(body) ELSE body
        uncompressed_length == IF big THEN Len(body) ELSE 0
        length == Len(payload)
    IN  IF to_bytes_overflows(3, length) \/ to_bytes_overflows(1, seq)
        THEN [ok |-> FALSE, err |-> "overflow", io |-> io, entry |-> <<>>]
        ELSE [ok |-> TRUE, err |-> "none",
              io |-> channel_write(io,
                        to_bytes(3, length) \o to_bytes(1, seq)
                        \o to_bytes(3, uncompressed_length) \o payload),
              entry |-> [seq |-> seq, length |-> length,
                         uncompressed_length |-> uncompressed_length,
                         body |-> body, payload |-> payload]]

\* create_compressed_packet_writer.write_packet
compressed_write_packet(io, seq, body) ==
    LET big == Len(body) > io.f.threshold
        payload == IF big THEN compress(body) ELSE body
        uncompressed_length == IF big THEN Len(body) ELSE 0
        length == Len(payload)
    IN  IF to_bytes_overflows(3, length) \/ to_bytes_overflows(1, seq)
        THEN [ok |-> FALSE, err |-> "overflow", io |-> io, entry |-> <<>>]
        ELSE [ok |-> TRUE, err |-> "none",
              io |-> channel_write(io,
                        to_bytes(3, length) \o to_bytes(1, seq)
                        \o to_bytes(3, uncompressed_length) \o payload),
              entry |-> [seq |-> seq, length |-> length,
                         uncompressed_length |-> uncompressed_length,
                         body |-> body, payload |-> payload]]

\* The loop of write_message: one writer call per part, the sequence
\* advanced after each; an exception of the writer ends the loop.
RECURSIVE write_parts(_, _, _, _, _)
write_parts(outer, io, seq, parts, log) ==
    IF parts = <<>> THEN [ok |-> TRUE, err |-> "none", seq |-> seq, io |-> io, log |-> log]
    ELSE LET K(w) ==
                 IF ~w.ok
                 THEN [ok |-> FALSE, err |-> w.err, seq |-> seq, io |-> w.io, log |-> log]
                 ELSE write_parts(outer, w.io, next_seq(seq), Tail(parts),
                                  Append(log, w.entry))
         IN  K(IF outer THEN compressed_write_packet(io, seq, Head(parts))
               ELSE write_packet(io, seq, Head(parts)))

write_message(outer, io, seq, data) == write_parts(outer, io, seq, split(data), <<>>)

\* ProtoPlain.send: self.seq is assigned only when write_message returns.
ProtoPlain_send(io, data) ==
    LET K(w) == [ok |-> w.ok, err |-> w.err, log |-> w.log,
                 io |-> IF w.ok THEN [w.io EXCEPT !.f.seq = w.seq] ELSE w.io]
    IN  K(write_message(FALSE, io, io.f.seq, data))

\* A send that writes the buffer and does not clear it.
ProtoCompressed_send_keeping(io, data) ==
    LET K(p) ==
            LET K2(w) ==
                    IF ~w.ok
                    THEN [ok |-> FALSE, err |-> w.err, log |-> p.log, outer |-> w.log,
                          buffered |-> Len(p.io.f.write_buffer), io |-> w.io]
                    ELSE [ok |-> TRUE, err |-> "none", log |-> p.log, outer |-> w.log,
                          buffered |-> Len(p.io.f.write_buffer),
                          io |-> [w.io EXCEPT !.f.seq_compressed = w.seq]]
            IN  IF ~p.ok
                THEN [ok |-> FALSE, err |-> p.err, log |-> p.log, outer |-> <<>>,
                      buffered |-> Len(p.io.f.write_buffer), io |-> p.io]
                ELSE K2(write_message(TRUE, p.io, p.io.f.seq_compressed,
                                      p.io.f.write_buffer))
    IN  K(ProtoPlain_send(io, data))

\* ProtoCompressed.send: the plain layer fills write_buffer, then the buffer
\* is written as one compressed message and cleared.
ProtoCompressed_send(io, data) ==
    LET K(p) ==
            LET K2(w) ==
                    IF ~w.ok
                    THEN [ok |-> FALSE, err |-> w.err, log |-> p.log, outer |-> w.log,
                          buffered |-> Len(p.io.f.write_buffer), io |-> w.io]
                    ELSE [ok |-> TRUE, err |-> "none", log |-> p.log, outer |-> w.log,
                          buffered |-> Len(p.io.f.write_buffer),
                          io |-> [w.io EXCEPT !.f.seq_compressed = w.seq,
                                              !.f.write_buffer = <<>>]]
            IN  IF ~p.ok
                THEN [ok |-> FALSE, err |-> p.err, log |-> p.log, outer |-> <<>>,
                      buffered |-> Len(p.io.f.write_buffer), io |-> p.io]
                ELSE K2(write_message(TRUE, p.io, p.io.f.seq_compressed,
                                      p.io.f.write_buffer))
    IN  K(ProtoPlain_send(io, data))

\* send() of whichever framer class the object is.
wire_send(io, data) ==
    IF io.f.compressed THEN ProtoCompressed_send(io, data)
    ELSE LET K(p) == [ok |-> p.ok, err |-> p.err, log |-> p.log, outer |-> <<>>,
                      buffered |-> 0, io |-> p.io]
         IN  K(ProtoPlain_send(io, data))

\* ProtoPlain.reset / ProtoCompressed.reset
ProtoPlain_reset(f) == [f EXCEPT !.seq = 0]

ProtoCompressed_reset_inner_only(f) == ProtoPlain_reset(f)

ProtoCompressed_reset(f) == [ProtoPlain_reset(f) EXCEPT !.seq_compressed = 0]

wire_reset(f) == IF f.compressed THEN ProtoCompressed_reset(f) ELSE ProtoPlain_reset(f)

\* ----------------------------------------------------------------- readers
RECURSIVE read_message(_, _, _, _, _)

compressed_read_packet_no_length_check(io) ==
    LET K(h) ==
            LET length == to_int(SubSeq(h.data, 1, 3))
                seq == to_int(SubSeq(h.data, 4, 4))
                uncompressed_length == to_int(SubSeq(h.data, 5, 7))
                K2(b) ==
                    LET entry == [seq |-> seq, length |-> length,
                                  uncompressed_length |-> uncompressed_length,
                                  payload |-> b.data, read |-> b.ok]
                        fail(e) == [ok |-> FALSE, err |-> e, last |-> FALSE, seq |-> 0,
                                    data |-> <<>>, io |-> b.io, entry |-> entry]
                        K3(d) ==
                            IF ~d.ok THEN fail("zlib")
                            ELSE [ok |-> TRUE, err |-> "none",
                                  last |-> length < MAX_PACKET, seq |-> seq,
                                  data |-> d.data, io |-> b.io, entry |-> entry]
                    IN  IF ~b.ok THEN fail(b.err)
                        ELSE IF uncompressed_length > 0 THEN K3(decompress(b.data))
                        ELSE [ok |-> TRUE, err |-> "none",
                              last |-> length < MAX_PACKET, seq |-> seq,
                              data |-> b.data, io |-> b.io, entry |-> entry]
            IN  IF ~h.ok THEN [ok |-> FALSE, err |-> h.err, last |-> FALSE, seq |-> 0,
                               data |-> <<>>, io |-> h.io,
                               entry |-> [seq |-> 0 - 1, length |-> 0,
                                          uncompressed_length |-> 0,
                                          payload |-> <<>>, read |-> FALSE]]
                ELSE K2(channel_read(h.io, length))
    IN  K(channel_read(io, 7))

\* create_compressed_packet_reader.read_packet
compressed_read_packet(io) ==
    LET K(h) ==
            LET length == to_int(SubSeq(h.data, 1, 3))
                seq == to_int(SubSeq(h.data, 4, 4))
                uncompressed_length == to_int(SubSeq(h.data, 5, 7))
                K2(b) ==
                    LET entry == [seq |-> seq, length |-> length,
                                  uncompressed_length |-> uncompressed_length,
                                  payload |-> b.data, read |-> b.ok]
                        fail(e) == [ok |-> FALSE, err |-> e, last |-> FALSE, seq |-> 0,
                                    data |-> <<>>, io |-> b.io, entry |-> entry]
                        K3(d) ==
                            IF ~d.ok THEN fail("zlib")
                            ELSE IF Len(d.data) # uncompressed_length
                            THEN fail("length_mismatch")
                            ELSE [ok |-> TRUE, err |-> "none",
                                  last |-> length < MAX_PACKET, seq |-> seq,
                                  data |-> d.data, io |-> b.io, entry |-> entry]
                    IN  IF ~b.ok THEN fail(b.err)
                        ELSE IF uncompressed_length > 0 THEN K3(decompress(b.data))
                        ELSE [ok |-> TRUE, err |-> "none",
                              last |-> length < MAX_PACKET, seq |-> seq,
                              data |-> b.data, io |-> b.io, entry |-> entry]
            IN  IF ~h.ok THEN [ok |-> FALSE, err |-> h.err, last |-> FALSE, seq |-> 0,
                               data |-> <<>>, io |-> h.io,
                               entry |-> [seq |-> 0 - 1, length |-> 0,
                                          uncompressed_length |-> 0,
                                          payload |-> <<>>, read |-> FALSE]]
                ELSE K2(channel_read(h.io, length))
    IN  K(channel_read(io, 7))

\* ProtoCompressed.recv_compressed: read_buffer and seq_compressed change
\* only when the whole compressed message has been read.
ProtoCompressed_recv_compressed(io) ==
    LET K(r) ==
            IF ~r.ok THEN [ok |-> FALSE, err |-> r.err, io |-> r.io,
                           log |-> <<[ok |-> FALSE, err |-> r.err, envs |-> r.log]>>]
            ELSE [ok |-> TRUE, err |-> "none",
                  log |-> <<[ok |-> TRUE, err |-> "none", envs |-> r.log]>>,
                  io |-> [r.io EXCEPT !.f.seq_compressed = r.seq,
                                      !.f.read_buffer = @ \o r.output]]
    IN  K(read_message(TRUE, io, io.f.seq_compressed, <<>>, <<>>))

\* ProtoCompressed.read: at most one compressed message is fetched per call.
ProtoCompressed_read(io, n) ==
    LET K(c) ==
            IF ~c.ok
            THEN [ok |-> FALSE, err |-> c.err, data |-> <<>>, io |-> c.io, outer |-> c.log]
            ELSE IF Len(c.io.f.read_buffer) < n
            THEN [ok |-> FALSE, err |-> "eof", data |-> <<>>, io |-> c.io, outer |-> c.log]
            ELSE [ok |-> TRUE, err |-> "none", data |-> SubSeq(c.io.f.read_buffer, 1, n),
                  io |-> [c.io EXCEPT !.f.read_buffer = Drop(@, n)], outer |-> c.log]
    IN  K(IF Len(io.f.read_buffer) < n THEN ProtoCompressed_recv_compressed(io)
          ELSE [ok |-> TRUE, err |-> "none", io |-> io, log |-> <<>>])

\* The READER the plain layer was constructed with.
plain_read(io, n) ==
    IF io.f.compressed THEN ProtoCompressed_read(io, n)
    ELSE LET K(r) == [ok |-> r.ok, err |-> r.err, data |-> r.data, io |-> r.io,
                      outer |-> <<>>]
         IN  K(channel_read(io, n))

\* A reader for which every fragment is the last one.
read_packet_always_last(io) ==
    LET K(h) ==
            LET length == to_int(SubSeq(h.data, 1, 3))
                seq == to_int(SubSeq(h.data, 4, 4))
                K2(b) ==
                    IF ~b.ok
                    THEN [ok |-> FALSE, err |-> b.err, last |-> FALSE, seq |-> seq,
                          data |-> <<>>, io |-> b.io,
                          entry |-> [hdr |-> TRUE, seq |-> seq, length |-> length,
                                     body |-> <<>>, got |-> FALSE,
                                     calls |-> h.outer \o b.outer]]
                    ELSE [ok |-> TRUE, err |-> "none", last |-> TRUE,
                          seq |-> seq, data |-> b.data, io |-> b.io,
                          entry |-> [hdr |-> TRUE, seq |-> seq, length |-> length,
                                     body |-> b.data, got |-> TRUE,
                                     calls |-> h.outer \o b.outer]]
            IN  IF ~h.ok THEN [ok |-> FALSE, err |-> h.err, last |-> FALSE, seq |-> 0,
                               data |-> <<>>, io |-> h.io,
                               entry |-> [hdr |-> FALSE, seq |-> 0 - 1, length |-> 0,
                                          body |-> <<>>, got |-> FALSE,
                                          calls |-> h.outer]]
                ELSE K2(plain_read(h.io, length))
    IN  K(plain_read(io, 4))

\* create_packet_reader.read_packet
read_packet(io) ==
    LET K(h) ==
            LET length == to_int(SubSeq(h.data, 1, 3))
                seq == to_int(SubSeq(h.data, 4, 4))
                K2(b) ==
                    IF ~b.ok
                    THEN [ok |-> FALSE, err |-> b.err, last |-> FALSE, seq |-> seq,
                          data |-> <<>>, io |-> b.io,
                          entry |-> [hdr |-> TRUE, seq |-> seq, length |-> length,
                                     body |-> <<>>, got |-> FALSE,
                                     calls |-> h.outer \o b.outer]]
                    ELSE [ok |-> TRUE, err |-> "none", last |-> length < MAX_PACKET,
                          seq |-> seq, data |-> b.data, io |-> b.io,
                          entry |-> [hdr |-> TRUE, seq |-> seq, length |-> length,
                                     body |-> b.data, got |-> TRUE,
                                     calls |-> h.outer \o b.outer]]
            IN  IF ~h.ok THEN [ok |-> FALSE, err |-> h.err, last |-> FALSE, seq |-> 0,
                               data |-> <<>>, io |-> h.io,
                               entry |-> [hdr |-> FALSE, seq |-> 0 - 1, length |-> 0,
                                          body |-> <<>>, got |-> FALSE,
                                          calls |-> h.outer]]
                ELSE K2(plain_read(h.io, length))
    IN  K(plain_read(io, 4))

read_message_no_check(outer, io, expected_seq, output, log) ==
    LET K(p) ==
            IF ~p.ok
            THEN [ok |-> FALSE, err |-> p.err, seq |-> expected_seq, output |-> output,
                  io |-> p.io, log |-> Append(log, p.entry)]
            ELSE IF p.last
            THEN [ok |-> TRUE, err |-> "none", seq |-> next_seq(p.seq),
                  output |-> output \o p.data, io |-> p.io, log |-> Append(log, p.entry)]
            ELSE read_message(outer, p.io, next_seq(p.seq), output \o p.data,
                              Append(log, p.entry))
    IN  K(IF outer THEN compressed_read_packet(io) ELSE read_packet(io))

read_message_no_wrap(outer, io, expected_seq, output, log) ==
    LET K(p) ==
            IF ~p.ok
            THEN [ok |-> FALSE, err |-> p.err, seq |-> expected_seq, output |-> output,
                  io |-> p.io, log |-> Append(log, p.entry)]
            ELSE IF p.seq # expected_seq
            THEN [ok |-> FALSE, err |-> "sequence", seq |-> expected_seq,
                  output |-> output, io |-> p.io, log |-> Append(log, p.entry)]
            ELSE IF p.last
            THEN [ok |-> TRUE, err |-> "none", seq |-> p.seq + 1,
                  output |-> output \o p.data, io |-> p.io, log |-> Append(log, p.entry)]
            ELSE read_message(outer, p.io, p.seq + 1, output \o p.data,
                              Append(log, p.entry))
    IN  K(IF outer THEN compressed_read_packet(io) ELSE read_packet(io))

\* read_message: fragments are read until one is short; each sequence is
\* compared with the expected one after the fragment has been read.
read_message(outer, io, expected_seq, output, log) ==
    LET K(p) ==
            IF ~p.ok
            THEN [ok |-> FALSE, err |-> p.err, seq |-> expected_seq, output |-> output,
                  io |-> p.io, log |-> Append(log, p.entry)]
            ELSE IF p.seq # expected_seq
            THEN [ok |-> FALSE, err |-> "sequence", seq |-> expected_seq,
                  output |-> output, io |-> p.io, log |-> Append(log, p.entry)]
            ELSE IF p.last
            THEN [ok |-> TRUE, err |-> "none", seq |-> next_seq(p.seq),
                  output |-> output \o p.data, io |-> p.io, log |-> Append(log, p.entry)]
            ELSE read_message(outer, p.io, next_seq(p.seq), output \o p.data,
                              Append(log, p.entry))
    IN  K(IF outer THEN compressed_read_packet(io) ELSE read_packet(io))

\* A recv that stores the number it was waiting for when it failed.
ProtoPlain_recv_storing(io) ==
    LET K(r) == [ok |-> r.ok, err |-> r.err, data |-> IF r.ok THEN r.output ELSE <<>>,
                 log |-> r.log,
                 io |-> [r.io EXCEPT !.f.seq = r.seq]]
    IN  K(read_message(FALSE, io, io.f.seq, <<>>, <<>>))

\* ProtoPlain.recv (inherited by ProtoCompressed): self.seq is assigned only
\* when read_message returns.
ProtoPlain_recv(io) ==
    LET K(r) == [ok |-> r.ok, err |-> r.err, data |-> IF r.ok THEN r.output ELSE <<>>,
                 log |-> r.log,
                 io |-> IF r.ok THEN [r.io EXCEPT !.f.seq = r.seq] ELSE r.io]
    IN  K(read_message(FALSE, io, io.f.seq, <<>>, <<>>))

\* ------------------------------------------------------------------- state
VARIABLES
    wire,       \* the framer under test: sender of the loop-back pair, or the session's _wire
    peer,       \* the second framer of the loop-back pair, constructed like wire
    c2s,        \* bytes written by wire's WRITER and not yet read by the other end
    s2c,        \* bytes waiting for wire's READER
    sent,       \* history: messages whose send() completed and that were not yet received
    lastSend,   \* observation of the last send()
    lastRecv,   \* observation of the last recv()
    nsent,      \* number of send() calls so far
    srv,        \* the server end feeding s2c: its counters and the inner bytes it has framed but not yet put on the channel
    pc,         \* the session's position: "idle", or the reply it is waiting for
    sess        \* the session object: its capability sets, the class of its framer, what connect() has done so far

vars == <<wire, peer, c2s, s2c, sent, lastSend, lastRecv, nsent, srv, pc, sess>>

\* ------------------------------------------------------------------ inputs
MaxMsgLen == 2 * MAX_PACKET + 1

\* Message contents: a constant fill and an alternating fill, of every length.
Msg(pattern, n) == [i \in 1..n |-> IF pattern = 1 THEN 7 ELSE 1 + (i % 2)]

Messages == {Msg(p, n) : p \in {1, 2}, n \in 0..MaxMsgLen}

\* Messages sent after the first one of a run.
FollowUps == {Msg(1, 0), Msg(2, 2), Msg(1, MAX_PACKET)}

Thresholds == {0, MidThreshold, MAX_PACKET}

\* Counter values a framer can hold after earlier traffic since its last reset.
SeqStarts == {0, 254, 255}

OuterSeqStarts == {0, 255}

\* ProtoPlain.__init__ / ProtoCompressed.__init__, with the counters as left
\* by s inner and sc outer fragments of earlier traffic.
NewFramer(compressed, threshold, s, sc) ==
    [compressed |-> compressed, threshold |-> threshold,
     seq |-> s, seq_compressed |-> sc,
     read_buffer |-> <<>>, write_buffer |-> <<>>]

NoSend == [op |-> "none", m |-> <<>>, s0 |-> 0, sc0 |-> 0, ok |-> TRUE, err |-> "none",
           log |-> <<>>, outer |-> <<>>, buffered |-> 0, s1 |-> 0, sc1 |-> 0]

NoRecv == [op |-> "none", ok |-> TRUE, err |-> "none", data |-> <<>>, expected |-> <<>>,
           nfrag |-> 0, known |-> FALSE, log |-> <<>>, s0 |-> 0, sc0 |-> 0,
           rb0 |-> <<>>, complete |-> FALSE]

\* The parsed packet handed to the caller: the fields of OKPacket, EOFPacket,
\* ERRPacket and InfilePacket side by side, and the raw bytes for data.
NoPacket == [header |-> 0 - 1, affected_rows |-> 0, last_insert_id |-> 0, status_flags |-> 0,
             warnings |-> 0, code |-> 0, state |-> <<>>, text |-> <<>>, data |-> <<>>]

\* No command has given a result.
NoResult == [ok |-> TRUE, err |-> "none", type |-> "none", packet |-> NoPacket,
             nrecv |-> 0, ncols |-> 0, ncolumns |-> 0, nrows |-> 0]

\* A session object on which connect() has not been called: the arguments
\* of the constructor and of connect(), the fields of the object, and the
\* observations kept of what connect() did.
NoSession == [variant |-> "none", charset_known |-> TRUE,
              database |-> [given |-> FALSE, name |-> <<>>], enable_ssl |-> FALSE,
              declared |-> {}, wire_class |-> "none", initialized |-> FALSE,
              auth_data |-> [given |-> FALSE, value |-> <<>>],
              capabilities_server |-> {}, capabilities |-> {}, factory |-> {},
              client_flag |-> {}, ssl_request |-> <<>>, response |-> <<>>,
              events |-> <<>>, acked |-> FALSE, frozen |-> {}, err |-> "none",
              r |-> 0, hello |-> <<>>, reply |-> [type |-> "none", packet |-> NoPacket],
              op |-> "none", nops |-> 0, script |-> <<>>, stale |-> FALSE,
              result |-> NoResult,
              previous |-> [err |-> "none", type |-> "none"], compressed |-> FALSE]

NoServer == [seq |-> 0, seq_compressed |-> 0, pending |-> <<>>, clean |-> TRUE,
             open |-> FALSE, nenv |-> 0]

Init ==
    /\ \E compressed \in BOOLEAN, s \in SeqStarts :
       \E threshold \in IF compressed THEN Thresholds ELSE {MidThreshold},
          sc \in IF compressed THEN OuterSeqStarts ELSE {0} :
            /\ wire = NewFramer(compressed, threshold, s, sc)
            /\ peer = NewFramer(compressed, threshold, s, sc)
    /\ c2s = <<>>
    /\ s2c = <<>>
    /\ sent = <<>>
    /\ lastSend = NoSend
    /\ lastRecv = NoRecv
    /\ nsent = 0
    /\ srv = NoServer
    /\ pc = "idle"
    /\ sess = NoSession

\* --------------------------------------------------------------- loop-back
\* wire.send(m): the whole handler.
Send(m) ==
    /\ nsent < MaxSends
    /\ \E r \in {wire_send([f |-> wire, out |-> c2s, inp |-> s2c], m)} :
           /\ wire' = r.io.f
           /\ c2s' = r.io.out
           /\ sent' = IF r.ok THEN Append(sent, [m |-> m, nfrag |-> Len(r.log)]) ELSE sent
           /\ lastSend' = [op |-> "send", m |-> m, s0 |-> wire.seq,
                           sc0 |-> wire.seq_compressed, ok |-> r.ok, err |-> r.err,
                           log |-> r.log, outer |-> r.outer, buffered |-> r.buffered,
                           s1 |-> r.io.f.seq, sc1 |-> r.io.f.seq_compressed]
    /\ nsent' = nsent + 1
    /\ UNCHANGED <<peer, s2c, lastRecv, srv, pc, sess>>

\* peer.recv(): the whole handler, on the bytes wire has written.
Recv ==
    /\ c2s # <<>>
    /\ \E r \in {ProtoPlain_recv([f |-> peer, out |-> s2c, inp |-> c2s])} :
           /\ peer' = r.io.f
           /\ c2s' = r.io.inp
           /\ sent' = IF sent = <<>> THEN sent ELSE Tail(sent)
           /\ lastRecv' = [op |-> "recv", ok |-> r.ok, err |-> r.err, data |-> r.data,
                           expected |-> IF sent = <<>> THEN <<>> ELSE Head(sent).m,
                           nfrag |-> IF sent = <<>> THEN 0 ELSE Head(sent).nfrag,
                           known |-> sent # <<>>, log |-> r.log,
                           s0 |-> peer.seq, sc0 |-> peer.seq_compressed,
                           rb0 |-> peer.read_buffer, complete |-> TRUE]
    /\ UNCHANGED <<wire, s2c, lastSend, nsent, srv, pc, sess>>

Next ==
    \/ \E m \in (IF nsent = 0 THEN Messages ELSE FollowUps) : Send(m)
    \/ Recv

Spec == Init /\ [][Next]_vars

\* ------------------------------------------------------- inbound direction
\* The server end of the connection writes to s2c and wire.recv() reads it.
\* In plain mode the server writes single fragments with a sequence number
\* of its choice; in compressed mode it frames whole messages into inner
\* packets and cuts that byte stream into envelopes wherever it likes.
ReplyMessages == {Msg(2, 2), Msg(1, MAX_PACKET)}

FragmentBodies == {Msg(1, 0), Msg(2, 2), Msg(1, MAX_PACKET)}

\* Sizes of the pieces the server cuts from an inner byte stream of n bytes:
\* one byte, a packet header, or as much as an envelope can hold.
EnvelopeCuts(n) == {1, 4, Min(n, MAX_PACKET)}

\* An envelope in the layout create_compressed_packet_reader parses.
server_write_envelope(out, seq, payload, uncompressed_length) ==
    out \o to_bytes(3, Len(payload)) \o to_bytes(1, seq)
        \o to_bytes(3, uncompressed_length) \o payload

InitRecv ==
    /\ \E compressed \in BOOLEAN :
       \E s \in IF compressed THEN OuterSeqStarts ELSE SeqStarts,
          sc \in IF compressed THEN OuterSeqStarts ELSE {0} :
            /\ wire = NewFramer(compressed, MidThreshold, s, sc)
            /\ peer = NewFramer(compressed, MidThreshold, s, sc)
            /\ srv = [NoServer EXCEPT !.seq = s, !.seq_compressed = sc]
    /\ c2s = <<>>
    /\ s2c = <<>>
    /\ sent = <<>>
    /\ lastSend = NoSend
    /\ lastRecv = NoRecv
    /\ nsent = 0
    /\ pc = "idle"
    /\ sess = NoSession

\* Plain mode: one fragment arrives, carrying the sequence number seq.
ServerFragment(seq, body) ==
    /\ ~wire.compressed
    /\ nsent < MaxFragments
    /\ \E w \in {write_packet([f |-> peer, out |-> s2c, inp |-> <<>>], seq, body)} :
           /\ w.ok
           /\ s2c' = w.io.out
    /\ srv' = [srv EXCEPT !.seq = next_seq(@)]
    /\ nsent' = nsent + 1
    /\ UNCHANGED <<wire, peer, c2s, sent, lastSend, lastRecv, pc, sess>>

\* Compressed mode: the server frames message m into inner packets, which
\* join the byte stream it has not yet put into envelopes.
ServerInner(m) ==
    /\ wire.compressed
    /\ nsent < MaxReplies
    /\ srv.clean
    /\ \E r \in {ProtoPlain_send([f |-> [peer EXCEPT !.seq = srv.seq,
                                                     !.write_buffer = srv.pending],
                                  out |-> <<>>, inp |-> <<>>], m)} :
           /\ r.ok
           /\ srv' = [srv EXCEPT !.seq = r.io.f.seq, !.pending = r.io.f.write_buffer]
           /\ sent' = Append(sent, [m |-> m, nfrag |-> Len(r.log)])
    /\ nsent' = nsent + 1
    /\ UNCHANGED <<wire, peer, c2s, s2c, lastSend, lastRecv, pc, sess>>

\* Compressed mode: the next n bytes of the server's inner byte stream go
\* out as one envelope, compressed or verbatim; delta is the error of the
\* uncompressed length a faulty server declares.  An empty envelope closes a
\* compressed message whose last envelope was full.
ServerEnvelope(n, z, delta) ==
    /\ wire.compressed
    /\ srv.clean
    /\ srv.nenv < MaxEnvelopes
    /\ n <= Len(srv.pending)
    /\ n <= MAX_PACKET
    /\ n = 0 => (srv.open /\ srv.pending = <<>>)
    /\ z => n > 0
    /\ ~z => delta = 0
    /\ \E payload \in {IF z THEN compress(Take(srv.pending, n)) ELSE Take(srv.pending, n)} :
           /\ Len(payload) <= MAX_PACKET
           /\ n + delta <= MAX_PACKET
           /\ s2c' = server_write_envelope(s2c, srv.seq_compressed, payload,
                                           IF z THEN n + delta ELSE 0)
           /\ srv' = [srv EXCEPT !.seq_compressed = next_seq(@),
                                 !.pending = Drop(@, n),
                                 !.clean = (delta = 0),
                                 !.open = (Len(payload) = MAX_PACKET),
                                 !.nenv = @ + 1]
    /\ UNCHANGED <<wire, peer, c2s, sent, lastSend, lastRecv, nsent, pc, sess>>

\* wire.recv(): the whole handler, on the bytes the server has written.
WireRecv ==
    /\ s2c # <<>> \/ wire.read_buffer # <<>>
    /\ \E r \in {ProtoPlain_recv([f |-> wire, out |-> c2s, inp |-> s2c])} :
           /\ wire' = r.io.f
           /\ s2c' = r.io.inp
           /\ sent' = IF sent = <<>> THEN sent ELSE Tail(sent)
           /\ srv' = [srv EXCEPT !.clean = @ /\ r.ok]
           /\ lastRecv' = [op |-> "recv", ok |-> r.ok, err |-> r.err, data |-> r.data,
                           expected |-> IF sent = <<>> THEN <<>> ELSE Head(sent).m,
                           nfrag |-> IF sent = <<>> THEN 0 ELSE Head(sent).nfrag,
                           known |-> sent # <<>>, log |-> r.log,
                           s0 |-> wire.seq, sc0 |-> wire.seq_compressed,
                           rb0 |-> wire.read_buffer,
                           complete |-> /\ sent # <<>>
                                        /\ srv.pending = <<>>
                                        /\ ~srv.open
                                        /\ srv.clean]
    /\ UNCHANGED <<peer, c2s, lastSend, nsent, pc, sess>>

NextRecv ==
    \/ \E body \in FragmentBodies :
       \E seq \in {srv.seq, next_seq(srv.seq), 0} : ServerFragment(seq, body)
    \/ \E m \in ReplyMessages : ServerInner(m)
    \/ \E n \in EnvelopeCuts(Len(srv.pending)) :
       \E z \in BOOLEAN, delta \in {0, 1} : ServerEnvelope(n, z, delta)
    \/ WireRecv

SpecRecv == InitRecv /\ [][NextRecv]_vars

\* ---------------------------------------------------------------- SpecReset
\* The receiving framer of SpecRecv, whose owner calls reset() after a recv()
\* has returned or failed, as send() of the session does before each command.
WireReset ==
    /\ lastRecv.op = "recv"
    /\ wire' = wire_reset(wire)
    /\ lastRecv' = [lastRecv EXCEPT !.op = "reset"]
    /\ UNCHANGED <<peer, c2s, s2c, sent, lastSend, nsent, srv, pc, sess>>

NextReset ==
    \/ NextRecv
    \/ WireReset

SpecReset == InitRecv /\ [][NextReset]_vars

\* ------------------------------------------------ direct out-buffer writes
\* ProtoCompressed.write called on the framer directly, as the plain layer's
\* drain calls it, followed or not by a send().
WriteChunks == {Msg(2, 1), Msg(1, MAX_PACKET - 1), Msg(1, MAX_PACKET)}

MaxBuffered == 2 * MAX_PACKET + 1

InitWrite ==
    /\ \E threshold \in Thresholds :
            /\ wire = NewFramer(TRUE, threshold, 0, 0)
            /\ peer = NewFramer(TRUE, threshold, 0, 0)
    /\ c2s = <<>>
    /\ s2c = <<>>
    /\ sent = <<>>
    /\ lastSend = NoSend
    /\ lastRecv = NoRecv
    /\ nsent = 0
    /\ srv = NoServer
    /\ pc = "idle"
    /\ sess = NoSession

\* wire.write(d): the whole handler.
Write(d) ==
    /\ nsent = 0
    /\ Len(wire.write_buffer) + Len(d) <= MaxBuffered
    /\ \E w \in {ProtoCompressed_write([f |-> wire, out |-> c2s, inp |-> s2c], d)} :
           /\ wire' = w.f
           /\ c2s' = w.out
           /\ lastSend' = [NoSend EXCEPT !.op = "write", !.m = d,
                                         !.buffered = Len(w.f.write_buffer)]
    /\ UNCHANGED <<peer, s2c, sent, lastRecv, nsent, srv, pc, sess>>

NextWrite ==
    \/ \E d \in WriteChunks : Write(d)
    \/ \E m \in FollowUps : Send(m)

SpecWrite == InitWrite /\ [][NextWrite]_vars

\* -------------------------------------------------------------- SpecBuffers
\* The framer of SpecReset through the calls of a command: its owner may
\* append to the out-buffer with write() after a recv(), calls reset() and
\* then send() for the next command, whose replies are received as before.
BufferedChunks == {Msg(2, 1), Msg(1, MAX_PACKET)}

CommandBodies == {Msg(2, 2), Msg(1, MAX_PACKET)}

WireWrite(d) ==
    /\ wire.compressed
    /\ lastRecv.op = "recv"
    /\ lastSend.op = "none"
    /\ \E w \in {ProtoCompressed_write([f |-> wire, out |-> c2s, inp |-> s2c], d)} :
           /\ wire' = w.f
           /\ c2s' = w.out
           /\ lastSend' = [NoSend EXCEPT !.op = "write", !.m = d,
                                         !.buffered = Len(w.f.write_buffer)]
    /\ UNCHANGED <<peer, s2c, sent, lastRecv, nsent, srv, pc, sess>>

WireSend(m) ==
    /\ lastRecv.op = "reset"
    /\ lastSend.op # "send"
    /\ \E r \in {wire_send([f |-> wire, out |-> c2s, inp |-> s2c], m)} :
           /\ wire' = r.io.f
           /\ c2s' = r.io.out
           /\ lastSend' = [op |-> "send", m |-> m, s0 |-> wire.seq,
                           sc0 |-> wire.seq_compressed, ok |-> r.ok, err |-> r.err,
                           log |-> r.log, outer |-> r.outer, buffered |-> r.buffered,
                           s1 |-> r.io.f.seq, sc1 |-> r.io.f.seq_compressed]
    /\ UNCHANGED <<peer, s2c, sent, lastRecv, nsent, srv, pc, sess>>

\* The framer is a ProtoCompressed; the server's envelopes are well-formed
\* and hold as much as fits.
InitBuffers ==
    /\ InitRecv
    /\ wire.compressed

NextBuffers ==
    \/ \E m \in ReplyMessages : ServerInner(m)
    \/ \E z \in BOOLEAN : ServerEnvelope(Min(Len(srv.pending), MAX_PACKET), z, 0)
    \/ WireRecv
    \/ WireReset
    \/ \E d \in BufferedChunks : WireWrite(d)
    \/ \E m \in CommandBodies : WireSend(m)

SpecBuffers == InitBuffers /\ [][NextBuffers]_vars

\* ----------------------------------------------------------------- session
\* Command bodies (Packets.PING / RESET / QUIT, create_query and
\* create_change_database_command): the command byte, then the text.
Packets_PING == <<14>>

Packets_RESET == <<31>>

Packets_QUIT == <<1>>

create_query(stmt) == <<3>> \o stmt

create_change_database_command(database) == <<2>> \o database

Statements == {Msg(2, 2), Msg(1, MAX_PACKET - 1), Msg(1, 2 * MAX_PACKET)}

Databases == {Msg(2, 1), Msg(2, 3)}

\* Replies of the server: an OK packet and a longer one.
Replies == {<<0>>, Msg(2, 3)}

InitSession ==
    /\ \E compressed \in BOOLEAN, s \in SeqStarts :
       \E threshold \in IF compressed THEN Thresholds ELSE {MidThreshold},
          sc \in IF compressed THEN OuterSeqStarts ELSE {0} :
            /\ wire = NewFramer(compressed, threshold, s, sc)
            /\ peer = NewFramer(compressed, threshold, s, sc)
    /\ c2s = <<>>
    /\ s2c = <<>>
    /\ sent = <<>>
    /\ lastSend = NoSend
    /\ lastRecv = NoRecv
    /\ nsent = 0
    /\ srv = NoServer
    /\ pc = "idle"
    /\ sess = NoSession

\* ProtoMySQL.send(data): reset the framer, then send; `after` is where the
\* session goes when the send has completed.
ProtoMySQL_send(data, after) ==
    /\ pc = "idle"
    /\ nsent < MaxCommands
    /\ \E r \in {wire_send([f |-> wire_reset(wire), out |-> c2s, inp |-> s2c], data)} :
           /\ wire' = r.io.f
           /\ c2s' = r.io.out
           /\ lastSend' = [op |-> "command", m |-> data, s0 |-> wire.seq,
                           sc0 |-> wire.seq_compressed, ok |-> r.ok, err |-> r.err,
                           log |-> r.log, outer |-> r.outer, buffered |-> r.buffered,
                           s1 |-> r.io.f.seq, sc1 |-> r.io.f.seq_compressed]
           /\ pc' = IF r.ok THEN after ELSE "idle"
    /\ nsent' = nsent + 1
    /\ UNCHANGED <<peer, s2c, sent, lastRecv, srv, sess>>

Ping == ProtoMySQL_send(Packets_PING, "ack")

ResetConnection == ProtoMySQL_send(Packets_RESET, "ack")

Quit == ProtoMySQL_send(Packets_QUIT, "closed")

ChangeDatabase(database) ==
    ProtoMySQL_send(create_change_database_command(database), "ack")

Query(stmt) == ProtoMySQL_send(create_query(stmt), "ack")

\* The server takes the command off the channel and answers, continuing the
\* sequence numbers of the command.
ServerReply(reply) ==
    /\ pc = "ack"
    /\ \E r \in {wire_send([f |-> [peer EXCEPT !.seq = wire.seq,
                                               !.seq_compressed = wire.seq_compressed],
                            out |-> s2c, inp |-> <<>>], reply)} :
           /\ r.ok
           /\ s2c' = r.io.out
    /\ c2s' = <<>>
    /\ pc' = "reply"
    /\ UNCHANGED <<wire, peer, sent, lastSend, lastRecv, nsent, srv, sess>>

\* ProtoMySQL.read_ack: the reply is received by wire.recv().
ReadReply ==
    /\ pc = "reply"
    /\ \E r \in {ProtoPlain_recv([f |-> wire, out |-> c2s, inp |-> s2c])} :
           /\ wire' = r.io.f
           /\ s2c' = r.io.inp
           /\ lastRecv' = [NoRecv EXCEPT !.op = "reply", !.ok = r.ok, !.err = r.err,
                                         !.data = r.data, !.log = r.log,
                                         !.s0 = wire.seq, !.sc0 = wire.seq_compressed,
                                         !.rb0 = wire.read_buffer]
    /\ pc' = "idle"
    /\ UNCHANGED <<peer, c2s, sent, lastSend, nsent, srv, sess>>

NextSession ==
    \/ Ping
    \/ ResetConnection
    \/ Quit
    \/ \E database \in Databases : ChangeDatabase(database)
    \/ \E stmt \in Statements : Query(stmt)
    \/ \E reply \in Replies : ServerReply(reply)
    \/ ReadReply

SpecSession == InitSession /\ [][NextSession]_vars


\* ------------------------------------------------------------- capabilities
\* A Capabilities value (an IntFlag) is the set of its bit numbers; `&` is
\* \cap, `|` is \cup and `in` is \in.
MYSQL == 0

CONNECT_WITH_DB == 3

COMPRESS == 5

PROTOCOL_41 == 9

SSL == 11

SECURE_CONNECTION == 15

PLUGIN_AUTH == 19

PLUGIN_AUTH_LENENC_CLIENT_DATA == 21

DEPRECATE_EOF == 24

MARIADB_PROGRESS == 32

RECURSIVE Pow2(_)
Pow2(b) == IF b = 0 THEN 1 ELSE 2 * Pow2(b - 1)

\* Capabilities(n), for the values n the model handles (below 2^31).
CapabilitiesOf(n) == {b \in 0..30 : (n \div Pow2(b)) % 2 = 1}

RECURSIVE FlagValue(_)
\* int(capabilities): the integer whose set bits are the members.
FlagValue(caps) ==
    IF caps = {} THEN 0
    ELSE LET b == CHOOSE x \in caps : TRUE
         IN  Pow2(b) + FlagValue(caps \ {b})

\* ------------------------------------------------------------- byte reader
\* Reader._splice on the bytes from offset `from` (0-based), as Python
\* slicing does it: short when the data runs out.
Slice(data, from, n) == Take(Drop(data, from), n)

\* bytes.partition(b'\x00'): the number of bytes before the first 0, or the
\* length of the data when there is none.
RECURSIVE NullAt(_)
NullAt(data) ==
    IF data = <<>> \/ Head(data) = 0 THEN 0 ELSE 1 + NullAt(Tail(data))

\* ---------------------------------------------------------------- handshake
\* CHARSETS['utf8mb4']
CHARSET_UTF8MB4 == 255

\* client_plugin_name = 'mysql_native_password'
MYSQL_NATIVE_PASSWORD ==
    <<109, 121, 115, 113, 108, 95, 110, 97, 116, 105, 118, 101, 95,
      112, 97, 115, 115, 119, 111, 114, 100>>

\* hashlib.sha1 is an external library: native_password is modelled by a
\* 20-byte mix of the password with the first 20 bytes of the challenge.
native_password(password, auth_data) ==
    [i \in 1..20 |->
        ((IF i <= Len(auth_data) THEN auth_data[i] ELSE 0) * 7
         + (IF password = <<>> THEN 0 ELSE password[1 + (i % Len(password))]) + i) % 256]

\* A parser that accepts every protocol version.
parse_handshake_any_version(data) ==
    LET protocol_version == to_int(Slice(data, 0, 1))
        d1 == Drop(data, 1)
        d2 == Drop(d1, NullAt(d1) + 1)
        cap_lower == to_int(Slice(d2, 13, 2))
        cap_upper == to_int(Slice(d2, 18, 2))
        base == CapabilitiesOf(cap_upper * 65536 + cap_lower)
        plugin == PLUGIN_AUTH \in base
        auth_plugin_data_len == IF plugin THEN to_int(Slice(d2, 20, 1)) ELSE 0
        o == IF plugin THEN 21 ELSE 20
        extended == IF MYSQL \in base THEN {}
                    ELSE {b + 32 : b \in CapabilitiesOf(to_int(Slice(d2, o + 6, 4)))}
        n2 == IF auth_plugin_data_len - 8 > 13 THEN auth_plugin_data_len - 8 ELSE 13
        d3 == Drop(d2, o + 10 + n2)
        remaining == IF plugin THEN Drop(d3, NullAt(d3) + 1) ELSE Drop(d2, o + 10)
    IN  IF FALSE
        THEN [ok |-> FALSE, err |-> "protocol_version", capabilities |-> {},
              auth_data_1 |-> <<>>, has_auth_data_2 |-> FALSE, auth_data_2 |-> <<>>]
        ELSE IF remaining # <<>>
        THEN [ok |-> FALSE, err |-> "remaining_data", capabilities |-> {},
              auth_data_1 |-> <<>>, has_auth_data_2 |-> FALSE, auth_data_2 |-> <<>>]
        ELSE [ok |-> TRUE, err |-> "none", capabilities |-> base \cup extended,
              auth_data_1 |-> Slice(d2, 4, 8), has_auth_data_2 |-> plugin,
              auth_data_2 |-> IF plugin THEN Slice(d2, o + 10, n2) ELSE <<>>]

\* parse_handshake: the HandshakeV10 fields the session uses, or the error
\* raised.  has_auth_data_2 is FALSE where the source stores None.
parse_handshake(data) ==
    LET protocol_version == to_int(Slice(data, 0, 1))
        d1 == Drop(data, 1)
        d2 == Drop(d1, NullAt(d1) + 1)
        cap_lower == to_int(Slice(d2, 13, 2))
        cap_upper == to_int(Slice(d2, 18, 2))
        base == CapabilitiesOf(cap_upper * 65536 + cap_lower)
        plugin == PLUGIN_AUTH \in base
        auth_plugin_data_len == IF plugin THEN to_int(Slice(d2, 20, 1)) ELSE 0
        o == IF plugin THEN 21 ELSE 20
        extended == IF MYSQL \in base THEN {}
                    ELSE {b + 32 : b \in CapabilitiesOf(to_int(Slice(d2, o + 6, 4)))}
        n2 == IF auth_plugin_data_len - 8 > 13 THEN auth_plugin_data_len - 8 ELSE 13
        d3 == Drop(d2, o + 10 + n2)
        remaining == IF plugin THEN Drop(d3, NullAt(d3) + 1) ELSE Drop(d2, o + 10)
    IN  IF protocol_version # 10
        THEN [ok |-> FALSE, err |-> "protocol_version", capabilities |-> {},
              auth_data_1 |-> <<>>, has_auth_data_2 |-> FALSE, auth_data_2 |-> <<>>]
        ELSE IF remaining # <<>>
        THEN [ok |-> FALSE, err |-> "remaining_data", capabilities |-> {},
              auth_data_1 |-> <<>>, has_auth_data_2 |-> FALSE, auth_data_2 |-> <<>>]
        ELSE [ok |-> TRUE, err |-> "none", capabilities |-> base \cup extended,
              auth_data_1 |-> Slice(d2, 4, 8), has_auth_data_2 |-> plugin,
              auth_data_2 |-> IF plugin THEN Slice(d2, o + 10, n2) ELSE <<>>]

\* Writer.int(4, value) raises OverflowError when the value needs more than
\* four bytes: a flag at bit 32 or above.
client_flag_overflows(client_flag) == \E b \in client_flag : b >= 32

\* An SSLRequest without its reserved bytes.
encode_ssl_request_no_filler(client_flag, max_packet, charset) ==
    to_bytes(4, FlagValue(client_flag)) \o to_bytes(4, max_packet)
        \o to_bytes(1, charset)

\* encode_ssl_request
encode_ssl_request(client_flag, max_packet, charset) ==
    to_bytes(4, FlagValue(client_flag)) \o to_bytes(4, max_packet)
        \o to_bytes(1, charset) \o [i \in 1..23 |-> 0]

\* encode_handshake_response(p) for p a HandshakeResponse41 whose client
\* flag lacks PLUGIN_AUTH_LENENC_CLIENT_DATA; p.database is [given, name],
\* the plugin name is always given, attrs and compression_level never.
encode_handshake_response(p) ==
    to_bytes(4, FlagValue(p.client_flag)) \o to_bytes(4, p.max_packet)
        \o to_bytes(1, p.charset) \o [i \in 1..23 |-> 0]
        \o p.username \o <<0>>
        \o <<Len(p.auth_response)>> \o p.auth_response
        \o (IF p.database.given THEN p.database.name \o <<0>> ELSE <<>>)
        \o MYSQL_NATIVE_PASSWORD \o <<0>>

\* ------------------------------------------------------------------ replies
TRANSACTIONS == 13

SESSION_TRACK == 23

SESSION_STATE_CHANGED == 14

Response_OK == 0

Response_INFILE == 251

Response_EOF == 254

Response_ERR == 255

\* Reader._to_string: bytes.decode raises on a byte that is not text.  The
\* replies of the model hold no well-formed multi-byte sequence, so every
\* byte above 127 is one.
decode_raises(value) == \E i \in 1..Len(value) : value[i] > 127

\* Reader.int_lenenc followed by the rest of the data.
int_lenenc(data) ==
    IF data = <<>>
    THEN [ok |-> FALSE, err |-> "IndexError", value |-> 0, rest |-> <<>>]
    ELSE IF data[1] < 251
    THEN [ok |-> TRUE, err |-> "none", value |-> data[1], rest |-> Drop(data, 1)]
    ELSE IF data[1] = 252
    THEN [ok |-> TRUE, err |-> "none", value |-> to_int(Slice(data, 1, 2)),
          rest |-> Drop(data, 3)]
    ELSE IF data[1] = 253
    THEN [ok |-> TRUE, err |-> "none", value |-> to_int(Slice(data, 1, 3)),
          rest |-> Drop(data, 4)]
    ELSE IF data[1] = 254
    THEN [ok |-> TRUE, err |-> "none", value |-> to_int(Slice(data, 1, 8)),
          rest |-> Drop(data, 9)]
    ELSE [ok |-> FALSE, err |-> "ValueError", value |-> 0, rest |-> <<>>]

\* parse_ok
parse_ok(data, capabilities) ==
    LET a == int_lenenc(Drop(data, 1))
        b == int_lenenc(a.rest)
        has_status == PROTOCOL_41 \in capabilities \/ TRANSACTIONS \in capabilities
        status_flags == IF has_status THEN to_int(Slice(b.rest, 0, 2)) ELSE 0
        r1 == IF has_status THEN Drop(b.rest, 2) ELSE b.rest
        warnings == IF PROTOCOL_41 \in capabilities THEN to_int(Slice(r1, 0, 2)) ELSE 0
        r2 == IF PROTOCOL_41 \in capabilities THEN Drop(r1, 2) ELSE r1
        track == SESSION_TRACK \in capabilities
        c == int_lenenc(r2)
        info == IF track THEN Take(c.rest, c.value) ELSE r2
        r3 == IF track THEN Drop(c.rest, c.value) ELSE <<>>
        changed == track /\ SESSION_STATE_CHANGED \in CapabilitiesOf(status_flags)
        packet == [NoPacket EXCEPT !.header = data[1], !.affected_rows = a.value,
                                   !.last_insert_id = b.value,
                                   !.status_flags = status_flags, !.warnings = warnings]
    IN  IF ~a.ok THEN [ok |-> FALSE, err |-> a.err, packet |-> NoPacket]
        ELSE IF ~b.ok THEN [ok |-> FALSE, err |-> b.err, packet |-> NoPacket]
        ELSE IF Len(data) <= 7 THEN [ok |-> TRUE, err |-> "none", packet |-> packet]
        ELSE IF track /\ ~c.ok THEN [ok |-> FALSE, err |-> c.err, packet |-> NoPacket]
        ELSE IF decode_raises(info)
        THEN [ok |-> FALSE, err |-> "UnicodeDecodeError", packet |-> NoPacket]
        ELSE IF changed /\ ~int_lenenc(r3).ok
        THEN [ok |-> FALSE, err |-> int_lenenc(r3).err, packet |-> NoPacket]
        ELSE [ok |-> TRUE, err |-> "none", packet |-> [packet EXCEPT !.text = info]]

\* parse_err
parse_err(data, capabilities) ==
    LET p41 == PROTOCOL_41 \in capabilities
        state == IF p41 THEN Slice(data, 3, 6) ELSE <<>>
        error == IF p41 THEN Drop(data, 9) ELSE Drop(data, 3)
    IN  IF decode_raises(state \o error)
        THEN [ok |-> FALSE, err |-> "UnicodeDecodeError", packet |-> NoPacket]
        ELSE [ok |-> TRUE, err |-> "none",
              packet |-> [NoPacket EXCEPT !.header = data[1],
                                          !.code = to_int(Slice(data, 1, 2)),
                                          !.state = state, !.text = error]]

\* parse_eof
parse_eof(data, capabilities) ==
    LET p41 == PROTOCOL_41 \in capabilities
    IN  [ok |-> TRUE, err |-> "none",
         packet |-> [NoPacket EXCEPT !.header = data[1],
                                     !.warnings = IF p41 THEN to_int(Slice(data, 1, 2)) ELSE 0,
                                     !.status_flags = IF p41 THEN to_int(Slice(data, 3, 2))
                                                      ELSE 0]]

\* parse_infile
parse_infile(data) ==
    IF decode_raises(Drop(data, 1))
    THEN [ok |-> FALSE, err |-> "UnicodeDecodeError", packet |-> NoPacket]
    ELSE [ok |-> TRUE, err |-> "none",
          packet |-> [NoPacket EXCEPT !.header = data[1], !.text = Drop(data, 1)]]

\* A classifier that takes every body starting with 0xFE as an
\* end-of-result marker.
try_parse_response_any_length(data, capabilities, include_infile) ==
    LET K(rule, type, r) == [ok |-> r.ok, err |-> r.err, rule |-> rule,
                             type |-> IF r.ok THEN type ELSE "raised",
                             packet |-> r.packet]
    IN  IF data = <<>>
        THEN K(0, "raised", [ok |-> FALSE, err |-> "IndexError", packet |-> NoPacket])
        ELSE IF data[1] = Response_EOF
        THEN IF DEPRECATE_EOF \in capabilities
             THEN K(1, "OK", parse_ok(data, capabilities))
             ELSE K(1, "EOF", parse_eof(data, capabilities))
        ELSE IF data[1] = Response_OK THEN K(2, "OK", parse_ok(data, capabilities))
        ELSE IF data[1] = Response_ERR THEN K(3, "ERR", parse_err(data, capabilities))
        ELSE IF include_infile /\ data[1] = Response_INFILE
        THEN K(4, "INFILE", parse_infile(data))
        ELSE K(5, "None", [ok |-> TRUE, err |-> "none",
                           packet |-> [NoPacket EXCEPT !.data = data]])

\* try_parse_response: the branch taken (rule), the type returned ("None"
\* for Python's None) and the packet, or the exception of the parser.
try_parse_response(data, capabilities, include_infile) ==
    LET K(rule, type, r) == [ok |-> r.ok, err |-> r.err, rule |-> rule,
                             type |-> IF r.ok THEN type ELSE "raised",
                             packet |-> r.packet]
    IN  IF data = <<>>
        THEN K(0, "raised", [ok |-> FALSE, err |-> "IndexError", packet |-> NoPacket])
        ELSE IF data[1] = Response_EOF /\ Len(data) < 9
        THEN IF DEPRECATE_EOF \in capabilities
             THEN K(1, "OK", parse_ok(data, capabilities))
             ELSE K(1, "EOF", parse_eof(data, capabilities))
        ELSE IF data[1] = Response_OK THEN K(2, "OK", parse_ok(data, capabilities))
        ELSE IF data[1] = Response_ERR THEN K(3, "ERR", parse_err(data, capabilities))
        ELSE IF include_infile /\ data[1] = Response_INFILE
        THEN K(4, "INFILE", parse_infile(data))
        ELSE K(5, "None", [ok |-> TRUE, err |-> "none",
                           packet |-> [NoPacket EXCEPT !.data = data]])

\* is_ack / might_be_ack
is_ack(type) == type = "OK" \/ type = "EOF"

\* ---------------------------------------------------------- handshake framer
\* A handshake receive whose first packet is held to the framer's counter.
ProtoHandshake_recv_checked(io, initialized) ==
    LET K(r) == [ok |-> r.ok, err |-> r.err, data |-> r.data, log |-> r.log,
                 io |-> r.io, first |-> ~initialized]
    IN  K(ProtoPlain_recv(io))

\* ProtoHandshake.recv on a framer whose `initialized` flag is given: the
\* first call reads one packet without comparing its sequence, adopts the
\* next one and, when the packet is not the last, continues with
\* ProtoPlain.recv; later calls are ProtoPlain.recv.  `initialized` is set
\* before anything is read.
ProtoHandshake_recv(io, initialized) ==
    IF initialized
    THEN LET K(r) == [ok |-> r.ok, err |-> r.err, data |-> r.data, log |-> r.log,
                      io |-> r.io, first |-> FALSE]
         IN  K(ProtoPlain_recv(io))
    ELSE LET K(p) ==
                 LET K2(r) ==
                         [ok |-> r.ok, err |-> r.err,
                          data |-> IF r.ok THEN p.data \o r.data ELSE <<>>,
                          log |-> <<p.entry>> \o r.log, io |-> r.io, first |-> TRUE]
                 IN  IF ~p.ok
                     THEN [ok |-> FALSE, err |-> p.err, data |-> <<>>, log |-> <<p.entry>>,
                           io |-> p.io, first |-> TRUE]
                     ELSE IF p.last
                     THEN [ok |-> TRUE, err |-> "none", data |-> p.data,
                           log |-> <<p.entry>>,
                           io |-> [p.io EXCEPT !.f.seq = next_seq(p.seq)], first |-> TRUE]
                     ELSE K2(ProtoPlain_recv([p.io EXCEPT !.f.seq = next_seq(p.seq)]))
         IN  K(read_packet(io))

\* ProtoHandshake.reset of src/protocol/handshake.py: the flag is cleared,
\* the counter is left as it is.
ProtoHandshake_reset(ss) == [ss EXCEPT !.initialized = FALSE]

\* ------------------------------------------------------------------ connect
\* The three connect() implementations of the repository.
Variants == {"ProtoMySQLBase", "ProtoMySQL", "NativePasswordHandshake"}

\* capabilities_client of _initialize_capabilities
capabilities_client == {PROTOCOL_41, SECURE_CONNECTION, DEPRECATE_EOF, COMPRESS}

\* Capabilities handed to NativePasswordHandshake.__init__.
DeclaredSets ==
    {{PROTOCOL_41, SECURE_CONNECTION, PLUGIN_AUTH, DEPRECATE_EOF},
     {PROTOCOL_41, SECURE_CONNECTION, PLUGIN_AUTH, CONNECT_WITH_DB, SSL}}

NoDatabase == [given |-> FALSE, name |-> <<>>]

DatabaseArgs == {NoDatabase, [given |-> TRUE, name |-> <<100>>]}

Username == <<117>>

Password == <<112>>

\* What a server puts in its HandshakeV10: the capability sets advertised.
ServerCapabilitySets ==
    {{MYSQL, CONNECT_WITH_DB, COMPRESS, PROTOCOL_41, SSL, SECURE_CONNECTION, PLUGIN_AUTH,
      DEPRECATE_EOF},
     {MYSQL, PROTOCOL_41, SECURE_CONNECTION, PLUGIN_AUTH},
     {MYSQL, PROTOCOL_41, SSL, SECURE_CONNECTION, PLUGIN_AUTH, DEPRECATE_EOF},
     {CONNECT_WITH_DB, COMPRESS, PROTOCOL_41, SECURE_CONNECTION, PLUGIN_AUTH,
      MARIADB_PROGRESS},
     {MYSQL, CONNECT_WITH_DB, PROTOCOL_41, SECURE_CONNECTION}}

\* The HandshakeV10 bytes of a server advertising caps, in the layout
\* parse_handshake reads.
server_handshake(version, caps) ==
    <<version, 56, 0>> \o to_bytes(4, 7) \o [i \in 1..8 |-> 64 + i] \o <<0>>
        \o to_bytes(2, FlagValue({b \in caps : b < 16}))
        \o <<CHARSET_UTF8MB4>> \o to_bytes(2, 2)
        \o to_bytes(2, FlagValue({b - 16 : b \in {c \in caps : c >= 16 /\ c < 32}}))
        \o (IF PLUGIN_AUTH \in caps THEN <<21>> ELSE <<>>)
        \o [i \in 1..6 |-> 0]
        \o (IF MYSQL \in caps THEN [i \in 1..4 |-> 0]
            ELSE to_bytes(4, FlagValue({b - 32 : b \in {c \in caps : c >= 32}})))
        \o (IF PLUGIN_AUTH \in caps
            THEN [i \in 1..12 |-> 96 + i] \o <<0>> \o MYSQL_NATIVE_PASSWORD \o <<0>>
            ELSE <<>>)

\* First messages of a server: well-formed handshakes, a handshake of another
\* protocol version (long, and a single byte), and one with a byte too many.
ServerHellos ==
    {server_handshake(10, caps) : caps \in ServerCapabilitySets}
        \cup {server_handshake(9, caps) : caps \in {{MYSQL, PROTOCOL_41}}}
        \cup {<<9>>}
        \cup {server_handshake(10, caps) \o <<0>> : caps \in {{MYSQL, PROTOCOL_41}}}

\* Replies of a server to the HandshakeResponse41: OK, the short 0xFE
\* packet, ERR, and an auth-switch request (0xFE and a plugin name).
AuthReplies ==
    {<<0, 0, 0, 2, 0, 0, 0>>, <<254, 0, 0, 2, 0>>,
     <<255, 21, 4, 35, 50, 56, 48, 48, 48, 110, 111>>,
     <<254>> \o MYSQL_NATIVE_PASSWORD \o <<0>>}

\* connect() ends with an exception.
Raise(ss, io, err) == [ss |-> [ss EXCEPT !.err = err], io |-> io, pc |-> "failed"]

\* self._wire.recv() of the session: the handshake framer until the framer
\* has been replaced.
wire_recv(ss, io) ==
    IF ss.wire_class = "ProtoHandshake" THEN ProtoHandshake_recv(io, ss.initialized)
    ELSE LET K(r) == [ok |-> r.ok, err |-> r.err, data |-> r.data, log |-> r.log,
                      io |-> r.io, first |-> FALSE]
         IN  K(ProtoPlain_recv(io))

\* _recv_handshake, and the first statement of NativePasswordHandshake.connect
\* after the charset check: receive, parse, store what the server advertised.
recv_handshake(ss, io) ==
    LET K(r) ==
            LET s1 == [ss EXCEPT !.initialized = TRUE,
                                 !.events = Append(@, "recv_handshake")]
                K2(p) ==
                    IF ~p.ok THEN [ok |-> FALSE, log |-> r.log,
                                   ss |-> [s1 EXCEPT !.err = p.err], io |-> r.io]
                    ELSE [ok |-> TRUE, log |-> r.log, io |-> r.io,
                          ss |-> [s1 EXCEPT !.capabilities_server = p.capabilities,
                                            !.auth_data =
                                                [given |-> p.has_auth_data_2,
                                                 value |-> p.auth_data_1 \o p.auth_data_2]]]
            IN  IF ~r.ok THEN [ok |-> FALSE, log |-> r.log,
                               ss |-> [s1 EXCEPT !.err = r.err], io |-> r.io]
                ELSE K2(parse_handshake(r.data))
    IN  K(wire_recv(ss, io))

\* Capabilities taken from the client's set alone.
initialize_capabilities_client_only(ss) ==
    [ss EXCEPT !.declared = capabilities_client, !.capabilities = capabilities_client,
               !.factory = capabilities_client]

\* _initialize_capabilities
initialize_capabilities(ss) ==
    [ss EXCEPT !.declared = capabilities_client,
               !.capabilities = capabilities_client \cap ss.capabilities_server,
               !.factory = capabilities_client \cap ss.capabilities_server]

\* The HandshakeResponse41 is built, encoded and sent on the handshake
\* framer without a reset; HandshakeV10.auth_data raises when the second
\* part is None.
write_response(ss, io, client_flag) ==
    IF ~ss.auth_data.given THEN Raise(ss, io, "TypeError")
    ELSE IF client_flag_overflows(client_flag) THEN Raise(ss, io, "OverflowError")
    ELSE LET data == encode_handshake_response(
                         [client_flag |-> client_flag, max_packet |-> MAX_PACKET,
                          charset |-> CHARSET_UTF8MB4, username |-> Username,
                          auth_response |-> native_password(Password, ss.auth_data.value),
                          database |-> ss.database])
             K(w) == [ss |-> [ss EXCEPT !.client_flag = client_flag, !.response = data,
                                        !.events = Append(@, "response")],
                      io |-> w.io, pc |-> "auth"]
         IN  K(ProtoPlain_send(io, data))

\* A response sent without looking at what the server advertised.
ProtoMySQLBase_send_handshake_response_unchecked(ss, io) ==
    IF ~ss.charset_known THEN Raise(ss, io, "LookupError")
    ELSE LET K(s1) == write_response(s1, io,
                                     IF s1.database.given
                                     THEN s1.capabilities \cup {CONNECT_WITH_DB}
                                     ELSE s1.capabilities)
         IN  K(initialize_capabilities(ss))

\* ProtoMySQLBase._send_handshake_response up to the sending of the response.
ProtoMySQLBase_send_handshake_response(ss, io) ==
    IF ~ss.charset_known THEN Raise(ss, io, "LookupError")
    ELSE LET K(s1) ==
                 IF s1.database.given /\ CONNECT_WITH_DB \notin s1.capabilities_server
                 THEN Raise(s1, io, "CONNECT_WITH_DB not supported")
                 ELSE write_response(s1, io,
                                     IF s1.database.given
                                     THEN s1.capabilities \cup {CONNECT_WITH_DB}
                                     ELSE s1.capabilities)
         IN  K(initialize_capabilities(ss))

\* ProtoMySQL._send_handshake_response of src/driver.py: client_flag is
\* self.capabilities, and the charset is looked up while the response is built.
ProtoMySQL_send_handshake_response(ss, io) ==
    LET K(s1) ==
            IF s1.database.given /\ CONNECT_WITH_DB \notin s1.capabilities_server
            THEN Raise(s1, io, "CONNECT_WITH_DB not supported")
            ELSE IF ~s1.charset_known THEN Raise(s1, io, "KeyError")
            ELSE write_response(s1, io, s1.capabilities)
    IN  K(initialize_capabilities(ss))

\* NativePasswordHandshake.connect from the parsed handshake to the first
\* write: the SSLRequest when TLS is asked for, else the response.
NativePasswordHandshake_negotiate(ss, io) ==
    LET c0 == ss.declared \cap ss.capabilities_server
        c1 == IF ss.database.given THEN c0 \cup {CONNECT_WITH_DB} ELSE c0
        c2 == IF ss.enable_ssl THEN c1 \cup {SSL} ELSE c1
        s1 == [ss EXCEPT !.capabilities = c2]
        request == encode_ssl_request(c2, MAX_PACKET, CHARSET_UTF8MB4)
        K(w) == [ss |-> [s1 EXCEPT !.client_flag = c2, !.ssl_request = request,
                                   !.events = Append(@, "ssl_request")],
                 io |-> w.io, pc |-> "tls"]
    IN  IF ss.database.given /\ CONNECT_WITH_DB \notin ss.capabilities_server
        THEN Raise(ss, io, "CONNECT_WITH_DB not supported")
        ELSE IF ss.enable_ssl /\ SSL \notin ss.capabilities_server
        THEN Raise(ss, io, "SSL not supported")
        ELSE IF ss.enable_ssl THEN K(ProtoPlain_send(io, request))
        ELSE write_response(s1, io, c2)

\* connect() from its call to the first point where it waits for the server
\* again or for the TLS callback.
connect(ss, io) ==
    IF ss.variant = "NativePasswordHandshake" /\ ~ss.charset_known
    THEN [ss |-> [ss EXCEPT !.err = "LookupError"], io |-> io, pc |-> "failed",
          log |-> <<>>]
    ELSE LET K(h) ==
                 LET K2(x) == [ss |-> x.ss, io |-> x.io, pc |-> x.pc, log |-> h.log]
                 IN  K2(IF ~h.ok THEN [ss |-> h.ss, io |-> h.io, pc |-> "failed"]
                        ELSE IF ss.variant = "ProtoMySQLBase"
                        THEN ProtoMySQLBase_send_handshake_response(h.ss, h.io)
                        ELSE IF ss.variant = "ProtoMySQL"
                        THEN ProtoMySQL_send_handshake_response(h.ss, h.io)
                        ELSE NativePasswordHandshake_negotiate(h.ss, h.io))
         IN  K(recv_handshake(ss, io))

\* The capabilities handed to the reply parsers: the factory's for the
\* session classes, the local set for NativePasswordHandshake.
parse_capabilities(ss) ==
    IF ss.variant = "NativePasswordHandshake" THEN ss.capabilities ELSE ss.factory

\* A read that hands an ERR packet back like any other reply.
read_returning_err(ss, io, include_infile) ==
    LET K(r) ==
            LET K2(c) ==
                    IF ~c.ok
                    THEN [ok |-> FALSE, err |-> c.err, type |-> "raised",
                          packet |-> NoPacket, io |-> r.io, log |-> r.log]
                    ELSE [ok |-> TRUE, err |-> "none", type |-> c.type,
                          packet |-> c.packet, io |-> r.io, log |-> r.log]
            IN  IF ~r.ok THEN [ok |-> FALSE, err |-> r.err, type |-> "raised",
                               packet |-> NoPacket, io |-> r.io, log |-> r.log]
                ELSE K2(try_parse_response(r.data, parse_capabilities(ss), include_infile))
    IN  K(wire_recv(ss, io))

\* ProtoMySQLBase.read / read_generic_packet: one message is received and
\* classified; ERR is raised as ValueError carrying the parsed packet.
read(ss, io, include_infile) ==
    LET K(r) ==
            LET K2(c) ==
                    IF ~c.ok
                    THEN [ok |-> FALSE, err |-> c.err, type |-> "raised",
                          packet |-> NoPacket, io |-> r.io, log |-> r.log]
                    ELSE IF c.type = "ERR"
                    THEN [ok |-> FALSE, err |-> "ValueError", type |-> c.type,
                          packet |-> c.packet, io |-> r.io, log |-> r.log]
                    ELSE [ok |-> TRUE, err |-> "none", type |-> c.type,
                          packet |-> c.packet, io |-> r.io, log |-> r.log]
            IN  IF ~r.ok THEN [ok |-> FALSE, err |-> r.err, type |-> "raised",
                               packet |-> NoPacket, io |-> r.io, log |-> r.log]
                ELSE K2(try_parse_response(r.data, parse_capabilities(ss), include_infile))
    IN  K(wire_recv(ss, io))

\* A read_ack that returns whatever read returns.
read_ack_unchecked(ss, io) == read(ss, io, FALSE)

\* read_ack: OK and EOF are returned, anything else raises TypeError.
read_ack(ss, io) ==
    LET K(r) == IF r.ok /\ ~is_ack(r.type) THEN [r EXCEPT !.ok = FALSE, !.err = "TypeError"]
                ELSE r
    IN  K(read(ss, io, FALSE))

\* A framer chosen without looking at the capabilities.
initialize_wire_plain(ss) == NewFramer(FALSE, MidThreshold, 0, 0)

\* _initialize_wire: the framer that replaces the handshake framer.
initialize_wire(ss) ==
    NewFramer(COMPRESS \in ss.capabilities, MidThreshold, 0, 0)

\* ----------------------------------------------------------------- commands
\* FieldTypes(value) raises ValueError for a value that is no member.
FieldTypes_raises(value) == value > 20 /\ value < 243

\* The Column built by read_columns from one message: six lenenc strings,
\* a lenenc integer and five fixed-width integers, read in that order.
RECURSIVE read_lenenc_strings(_, _)
read_lenenc_strings(data, n) ==
    IF n = 0 THEN [ok |-> TRUE, err |-> "none", rest |-> data]
    ELSE LET K(a) ==
                 IF ~a.ok THEN [ok |-> FALSE, err |-> a.err, rest |-> <<>>]
                 ELSE IF decode_raises(Take(a.rest, a.value))
                 THEN [ok |-> FALSE, err |-> "UnicodeDecodeError", rest |-> <<>>]
                 ELSE read_lenenc_strings(Drop(a.rest, a.value), n - 1)
         IN  K(int_lenenc(data))

parse_column(data) ==
    LET K(s6) ==
            LET K2(fixed) ==
                    IF ~fixed.ok THEN [ok |-> FALSE, err |-> fixed.err]
                    ELSE IF FieldTypes_raises(to_int(Slice(fixed.rest, 6, 1)))
                    THEN [ok |-> FALSE, err |-> "ValueError"]
                    ELSE [ok |-> TRUE, err |-> "none"]
            IN  IF ~s6.ok THEN [ok |-> FALSE, err |-> s6.err]
                ELSE K2(int_lenenc(s6.rest))
    IN  K(read_lenenc_strings(data, 6))

\* The values of one row: NullSafeReader.str_lenenc once per column; 0xFB is
\* NULL, and a row that ends early raises IndexError.
RECURSIVE parse_row(_, _)
parse_row(data, columns) ==
    IF columns = 0 THEN [ok |-> TRUE, err |-> "none"]
    ELSE IF data = <<>> THEN [ok |-> FALSE, err |-> "IndexError"]
    ELSE IF data[1] = 251 THEN parse_row(Drop(data, 1), columns - 1)
    ELSE LET K(a) ==
                 IF ~a.ok THEN [ok |-> FALSE, err |-> a.err]
                 ELSE IF decode_raises(Take(a.rest, a.value))
                 THEN [ok |-> FALSE, err |-> "UnicodeDecodeError"]
                 ELSE parse_row(Drop(a.rest, a.value), columns - 1)
         IN  K(int_lenenc(data))

\* What a handler hands back: the outcome, the io state, and how many
\* messages it received, how many columns and rows it built.
Outcome(r, io, nrecv, ncols, ncolumns, nrows) ==
    [ok |-> r.ok, err |-> r.err, type |-> r.type, packet |-> r.packet, io |-> io,
     nrecv |-> nrecv, ncols |-> ncols, ncolumns |-> ncolumns, nrows |-> nrows]

Raised(err) == [ok |-> FALSE, err |-> err, type |-> "raised", packet |-> NoPacket]

\* read_data: a data message is returned, OK and EOF give None.
read_data(ss, io) == read(ss, io, FALSE)

\* read_values: rows are read until read_data gives None.
RECURSIVE read_values(_, _, _, _, _, _)
read_values(ss, io, ncols, ncolumns, nrecv, nrows) ==
    LET K(r) ==
            LET K2(v) ==
                    IF ~v.ok THEN Outcome(Raised(v.err), r.io, nrecv + 1, ncols, ncolumns, nrows)
                    ELSE read_values(ss, r.io, ncols, ncolumns, nrecv + 1, nrows + 1)
            IN  IF ~r.ok THEN Outcome(r, r.io, nrecv + 1, ncols, ncolumns, nrows)
                ELSE IF r.type # "None"
                THEN Outcome([r EXCEPT !.type = "ResultSet"], r.io, nrecv + 1, ncols,
                             ncolumns, nrows)
                ELSE K2(parse_row(r.packet.data, ncols))
    IN  K(read_data(ss, io))

\* read_columns: one read_data per column; Reader(None) raises TypeError when
\* the message was an OK or EOF.
RECURSIVE read_columns(_, _, _, _, _)
read_columns(ss, io, ncols, ncolumns, nrecv) ==
    IF ncolumns = ncols THEN read_values(ss, io, ncols, ncolumns, nrecv, 0)
    ELSE LET K(r) ==
                 LET K2(c) ==
                         IF ~c.ok
                         THEN Outcome(Raised(c.err), r.io, nrecv + 1, ncols, ncolumns, 0)
                         ELSE read_columns(ss, r.io, ncols, ncolumns + 1, nrecv + 1)
                 IN  IF ~r.ok THEN Outcome(r, r.io, nrecv + 1, ncols, ncolumns, 0)
                     ELSE IF r.type # "None"
                     THEN Outcome(Raised("TypeError"), r.io, nrecv + 1, ncols, ncolumns, 0)
                     ELSE K2(parse_column(r.packet.data))
         IN  K(read_data(ss, io))

\* parse_result_set: the first message is the column count.
parse_result_set(ss, io, response) ==
    LET K(n) == IF ~n.ok THEN Outcome(Raised(n.err), io, 1, 0, 0, 0)
                ELSE read_columns(ss, io, n.value, 0, 1)
    IN  K(int_lenenc(response))

\* A query that takes every first reply for a column count.
standard_query_always_result_set(ss, io) ==
    LET K(r) == IF ~r.ok THEN Outcome(r, r.io, 1, 0, 0, 0)
                ELSE parse_result_set(ss, r.io, r.packet.data)
    IN  K(read(ss, io, ss.variant = "ProtoMySQLBase"))

\* standard_query after the query has been sent.  ProtoMySQLResults asks for
\* INFILE classification, standard_query of src/driver.py has no such class.
standard_query(ss, io) ==
    LET K(r) == IF ~r.ok \/ r.type # "None" THEN Outcome(r, r.io, 1, 0, 0, 0)
                ELSE parse_result_set(ss, r.io, r.packet.data)
    IN  K(read(ss, io, ss.variant = "ProtoMySQLBase"))

\* ping / reset / change_database after the command has been sent.
command_ack(ss, io) ==
    LET K(r) == Outcome(r, r.io, 1, 0, 0, 0)
    IN  K(read_ack(ss, io))

\* ------------------------------------------------------------ SpecHandshake
\* A session is constructed, the server sends its first message, connect()
\* runs, and an established session executes commands.
CharsetArgs == {TRUE, FALSE}

\* Sequence gaps a server may leave between two packets.
Gaps == {0, 1}

\* The session objects as their constructors leave them, with the arguments
\* connect() will be given; `compressed` is the constructor's argument of
\* that name (NativePasswordHandshake has none).
ConstructedSessions(compressed) ==
    UNION {{[NoSession EXCEPT !.variant = variant, !.charset_known = known,
                              !.database = database, !.enable_ssl = tls,
                              !.declared = declared, !.compressed = compressed,
                              !.wire_class = "ProtoHandshake"] :
                tls \in IF variant = "NativePasswordHandshake" THEN BOOLEAN ELSE {FALSE},
                declared \in IF variant = "NativePasswordHandshake"
                             THEN DeclaredSets ELSE {{}}} :
           variant \in Variants, known \in CharsetArgs, database \in DatabaseArgs}

InitHandshake ==
    /\ sess \in ConstructedSessions(FALSE)
    /\ wire = NewFramer(FALSE, MidThreshold, 0, 0)
    /\ peer = NewFramer(FALSE, MidThreshold, 0, 0)
    /\ c2s = <<>>
    /\ s2c = <<>>
    /\ sent = <<>>
    /\ lastSend = NoSend
    /\ lastRecv = NoRecv
    /\ nsent = 0
    /\ srv = NoServer
    /\ pc = "connect"

\* The server's first message: its first packet carries sequence r, the
\* following ones continue after a gap.
ServerHello(r, hello, gap) ==
    /\ pc = "connect"
    /\ \E p \in {write_packet([f |-> peer, out |-> s2c, inp |-> <<>>], r,
                              Take(hello, MAX_PACKET))} :
       \E w \in {IF Len(hello) < MAX_PACKET
                 THEN [ok |-> TRUE, io |-> [p.io EXCEPT !.f.seq = next_seq(r)]]
                 ELSE ProtoPlain_send([p.io EXCEPT !.f.seq = (r + 1 + gap) % 256],
                                      Drop(hello, MAX_PACKET))} :
            /\ s2c' = w.io.out
            /\ peer' = w.io.f
    /\ sess' = [sess EXCEPT !.r = r, !.hello = hello]
    /\ pc' = "hello"
    /\ UNCHANGED <<wire, c2s, sent, lastSend, lastRecv, nsent, srv>>

\* connect() up to its first write.
Connect ==
    /\ pc = "hello"
    /\ \E k \in {connect(sess, [f |-> wire, out |-> c2s, inp |-> s2c])} :
           /\ wire' = k.io.f
           /\ c2s' = k.io.out
           /\ s2c' = k.io.inp
           /\ sess' = k.ss
           /\ pc' = k.pc
           /\ lastRecv' = [NoRecv EXCEPT !.op = "handshake", !.ok = k.pc # "failed",
                                         !.err = k.ss.err, !.log = k.log,
                                         !.s0 = wire.seq]
           /\ lastSend' = [NoSend EXCEPT !.op = "connect", !.ok = k.io.out # <<>>,
                                         !.m = k.io.out,
                                         !.s0 = IF k.io.out # <<>> THEN k.io.out[4] ELSE 0,
                                         !.s1 = k.io.f.seq]
    /\ UNCHANGED <<peer, sent, nsent, srv>>

\* The enable_ssl callback runs (the server has taken the SSLRequest); when
\* it returns, the HandshakeResponse41 is written.
EnableSSL(upgraded) ==
    /\ pc = "tls"
    /\ \E k \in {IF upgraded
                 THEN write_response([sess EXCEPT !.events = Append(@, "enable_ssl")],
                                     [f |-> wire, out |-> <<>>, inp |-> s2c],
                                     sess.capabilities)
                 ELSE Raise([sess EXCEPT !.events = Append(@, "enable_ssl")],
                            [f |-> wire, out |-> <<>>, inp |-> s2c], "SSLError")} :
           /\ wire' = k.io.f
           /\ c2s' = k.io.out
           /\ sess' = k.ss
           /\ pc' = k.pc
    /\ UNCHANGED <<peer, s2c, sent, lastSend, lastRecv, nsent, srv>>

\* The server takes the response and answers, continuing the sequence of
\* the response after a gap.
ServerAuthReply(reply, gap) ==
    /\ pc = "auth"
    /\ \E w \in {ProtoPlain_send([f |-> [peer EXCEPT !.seq = (wire.seq + gap) % 256],
                                  out |-> s2c, inp |-> <<>>], reply)} :
           /\ s2c' = w.io.out
           /\ peer' = w.io.f
    /\ c2s' = <<>>
    /\ pc' = "auth_reply"
    /\ UNCHANGED <<wire, sent, lastSend, lastRecv, nsent, srv, sess>>

\* The end of connect(): read_ack on the handshake framer, then
\* _initialize_wire (session classes) or _wire.reset()
\* (NativePasswordHandshake).
ReadAuthReply ==
    /\ pc = "auth_reply"
    /\ \E k \in {read_ack(sess, [f |-> wire, out |-> c2s, inp |-> s2c])} :
           /\ s2c' = k.io.inp
           /\ lastRecv' = [NoRecv EXCEPT !.op = "auth_reply", !.ok = k.ok, !.err = k.err,
                                         !.log = k.log, !.s0 = wire.seq]
           /\ IF ~k.ok
              THEN /\ wire' = k.io.f
                   /\ sess' = [sess EXCEPT !.err = k.err,
                                           !.events = Append(@, "auth_reply"),
                                           !.reply = [type |-> k.type, packet |-> k.packet]]
                   /\ pc' = "failed"
              ELSE IF sess.variant = "NativePasswordHandshake"
              THEN /\ wire' = k.io.f
                   /\ sess' = ProtoHandshake_reset(
                                  [sess EXCEPT !.acked = TRUE, !.frozen = sess.capabilities,
                                               !.events = Append(@, "auth_reply"),
                                               !.reply = [type |-> k.type,
                                                          packet |-> k.packet]])
                   /\ pc' = "done"
              ELSE /\ wire' = initialize_wire(sess)
                   /\ sess' = [sess EXCEPT !.acked = TRUE, !.frozen = sess.capabilities,
                                           !.wire_class =
                                               IF COMPRESS \in sess.capabilities
                                               THEN "ProtoCompressed" ELSE "ProtoPlain",
                                           !.events = Append(Append(@, "auth_reply"),
                                                             "initialize_wire"),
                                           !.reply = [type |-> k.type, packet |-> k.packet]]
                   /\ pc' = "idle"
           /\ peer' = IF k.ok /\ sess.variant # "NativePasswordHandshake"
                      THEN initialize_wire(sess) ELSE peer
    /\ UNCHANGED <<c2s, sent, lastSend, nsent, srv>>

\* Bound on the commands of one session.
MaxOps == 2

\* Messages a server sends in reply to a command.
OKm == <<0, 0, 0, 2, 0, 0, 0>>

EOFm == <<254, 0, 0, 2, 0>>

ERRm == <<255, 21, 4, 35, 50, 56, 48, 48, 48, 110, 111>>

INFILEm == <<251, 102, 46, 99>>

ColumnCount(n) == <<n>>

ColumnDef ==
    <<3, 100, 101, 102, 0, 0, 0, 0, 0, 12, 255, 0, 1, 0, 0, 0, 253, 0, 0, 0, 0, 0>>

Row1 == <<3, 97, 98, 99>>

RowNull == <<251>>

Row2 == <<2, 97, 98, 251>>

\* What the server sends after a command: one reply, a reply followed by
\* another message, result sets (with the terminator in several places) and
\* result sets that break off.
ReplyScripts ==
    {<<OKm>>, <<EOFm>>, <<ERRm>>, <<INFILEm>>, <<Row1>>, <<OKm, OKm>>,
     <<ColumnCount(1), ColumnDef, Row1, OKm>>,
     <<ColumnCount(1), ColumnDef, Row1, RowNull, EOFm, OKm>>,
     <<ColumnCount(1), ColumnDef, EOFm, Row1, EOFm>>,
     <<ColumnCount(2), ColumnDef, ColumnDef, Row2, OKm>>,
     <<ColumnCount(1), ColumnDef, ERRm>>,
     <<ColumnCount(1), OKm, Row1>>,
     <<ColumnCount(2), ColumnDef, ColumnDef, Row1, OKm>>}

\* The scripts sent after ping, reset and change_database.
AckScripts == {<<OKm>>, <<EOFm>>, <<ERRm>>, <<INFILEm>>, <<Row1>>, <<OKm, OKm>>}

\* The statement and the database of the session's commands.
SessionStatement == Msg(2, 2)

SessionDatabase == Msg(2, 1)

\* Sequence numbers a server may give its first packet.
HelloSeqs == {0, 255}

\* A send that negotiates again from the client's set.
ProtoMySQLBase_send_renegotiating(ss, io, data) ==
    LET K(w) == [ok |-> w.ok, err |-> w.err, io |-> w.io,
                 ss |-> initialize_capabilities_client_only(ss)]
    IN  K(wire_send([io EXCEPT !.f = wire_reset(io.f)], data))

\* A send that keeps the sequence numbers of the previous command.
ProtoMySQLBase_send_no_reset(ss, io, data) ==
    LET K(w) == [ok |-> w.ok, err |-> w.err, io |-> w.io, ss |-> ss]
    IN  K(wire_send(io, data))

\* ProtoMySQLBase.send: the framer is reset, the command is sent; the
\* session's capabilities are not touched.
ProtoMySQLBase_send(ss, io, data) ==
    LET K(w) == [ok |-> w.ok, err |-> w.err, io |-> w.io, ss |-> ss]
    IN  K(wire_send([io EXCEPT !.f = wire_reset(io.f)], data))

\* A command method up to the end of its send: send() and the methods built
\* on it test nothing of the session before they write.
CommandSend(op, data, after) ==
    /\ sess.nops < MaxOps
    /\ \E k \in {ProtoMySQLBase_send(sess, [f |-> wire, out |-> c2s, inp |-> s2c], data)} :
           /\ wire' = k.io.f
           /\ c2s' = k.io.out
           /\ sess' = [k.ss EXCEPT !.op = op, !.nops = @ + 1, !.script = <<>>,
                                   !.stale = FALSE, !.result = NoResult,
                                   !.previous = [err |-> sess.result.err,
                                                 type |-> sess.result.type]]
           /\ lastSend' = [NoSend EXCEPT !.op = op, !.m = data, !.ok = k.ok, !.err = k.err,
                                         !.s0 = wire.seq, !.s1 = k.io.f.seq,
                                         !.sc1 = k.io.f.seq_compressed]
           /\ pc' = after
    /\ UNCHANGED <<peer, s2c, sent, lastRecv, nsent, srv>>

\* A command called on an established session that runs no other command.
SessionCommand(op, data) ==
    /\ pc = "idle"
    /\ CommandSend(op, data, IF op = "quit" THEN "closed" ELSE "sent")

Session_ping == SessionCommand("ping", Packets_PING)

Session_reset == SessionCommand("reset", Packets_RESET)

Session_quit == SessionCommand("quit", Packets_QUIT)

Session_change_database(database) ==
    SessionCommand("change_database", create_change_database_command(database))

Session_query(stmt) == SessionCommand("query", create_query(stmt))

\* The server frames the messages of a script one after the other.
RECURSIVE server_send_all(_, _)
server_send_all(io, script) ==
    IF script = <<>> THEN io
    ELSE LET K(w) == server_send_all(w.io, Tail(script))
         IN  K(wire_send(io, Head(script)))

\* The server takes the command and sends its replies, continuing the
\* sequence of the command.
ServerScript(script) ==
    /\ pc = "sent"
    /\ sess.op = "query" \/ script \in AckScripts
    /\ \E io \in {server_send_all([f |-> [peer EXCEPT !.seq = wire.seq,
                                                      !.seq_compressed = wire.seq_compressed],
                                   out |-> s2c, inp |-> <<>>], script)} :
           /\ s2c' = io.out
           /\ peer' = io.f
    /\ c2s' = <<>>
    /\ sess' = [sess EXCEPT !.script = script, !.stale = s2c # <<>> \/ wire.read_buffer # <<>>]
    /\ pc' = "replied"
    /\ UNCHANGED <<wire, sent, lastSend, lastRecv, nsent, srv>>

\* The rest of the command method: the replies are read.
SessionRead ==
    /\ pc = "replied"
    /\ \E k \in {IF sess.op = "query"
                 THEN standard_query(sess, [f |-> wire, out |-> c2s, inp |-> s2c])
                 ELSE command_ack(sess, [f |-> wire, out |-> c2s, inp |-> s2c])} :
           /\ wire' = k.io.f
           /\ s2c' = k.io.inp
           /\ sess' = [sess EXCEPT !.result = [ok |-> k.ok, err |-> k.err, type |-> k.type,
                                               packet |-> k.packet, nrecv |-> k.nrecv,
                                               ncols |-> k.ncols, ncolumns |-> k.ncolumns,
                                               nrows |-> k.nrows]]
           /\ lastRecv' = [NoRecv EXCEPT !.op = sess.op, !.ok = k.ok, !.err = k.err,
                                         !.s0 = wire.seq, !.sc0 = wire.seq_compressed]
    /\ pc' = "idle"
    /\ UNCHANGED <<peer, c2s, sent, lastSend, nsent, srv>>

NextHandshake ==
    \/ \E r \in HelloSeqs, hello \in ServerHellos, gap \in Gaps : ServerHello(r, hello, gap)
    \/ Connect
    \/ \E upgraded \in BOOLEAN : EnableSSL(upgraded)
    \/ \E reply \in AuthReplies, gap \in Gaps : ServerAuthReply(reply, gap)
    \/ ReadAuthReply
    \/ Session_ping
    \/ Session_reset
    \/ Session_quit
    \/ Session_change_database(SessionDatabase)
    \/ Session_query(SessionStatement)
    \/ \E script \in ReplyScripts : ServerScript(script)
    \/ SessionRead

SpecHandshake == InitHandshake /\ [][NextHandshake]_vars

\* ------------------------------------------------------------- SpecClassify
\* One reply body is classified, by try_parse_response of
\* protocol/packets/readers.py or by MySQLPacketFactory.try_parse_response
\* of driver.py.  Here sess is the call: its arguments and what it returned.
MaxBody == 10

FirstBytes == {0, 1, 251, 252, 254, 255}

\* What follows the first byte: the fields of an OK packet, or of an ERR
\* packet (code, marker, state, text).
BodyTails ==
    {[i \in 1..(MaxBody + 1) |-> IF i = 3 THEN 2 ELSE 0],
     <<21, 4, 35, 50, 56, 48, 48, 48>> \o [i \in 1..(MaxBody - 7) |-> 110]}

Bodies == {<<b>> \o Take(t, n) : b \in FirstBytes, t \in BodyTails, n \in 0..(MaxBody - 1)}

ClassifyCapabilities ==
    {{}, {PROTOCOL_41}, {DEPRECATE_EOF}, {PROTOCOL_41, DEPRECATE_EOF, SESSION_TRACK}}

Classifiers == {"readers", "MySQLPacketFactory"}

\* MySQLPacketFactory.try_parse_response of driver.py has no INFILE branch.
MySQLPacketFactory_try_parse_response(data, capabilities) ==
    try_parse_response(data, capabilities, FALSE)

NoClassified == [ok |-> TRUE, err |-> "none", rule |-> 0, type |-> "none",
                 packet |-> NoPacket]

InitClassify ==
    /\ \E classifier \in Classifiers, data \in Bodies, capabilities \in ClassifyCapabilities :
       \E include_infile \in IF classifier = "readers" THEN BOOLEAN ELSE {FALSE} :
            sess = [classifier |-> classifier, data |-> data,
                    capabilities |-> capabilities, include_infile |-> include_infile,
                    result |-> NoClassified]
    /\ wire = NewFramer(FALSE, MidThreshold, 0, 0)
    /\ peer = NewFramer(FALSE, MidThreshold, 0, 0)
    /\ c2s = <<>>
    /\ s2c = <<>>
    /\ sent = <<>>
    /\ lastSend = NoSend
    /\ lastRecv = NoRecv
    /\ nsent = 0
    /\ srv = NoServer
    /\ pc = "call"

Classify ==
    /\ pc = "call"
    /\ sess.classifier = "readers"
    /\ sess' = [sess EXCEPT !.result = try_parse_response(sess.data, sess.capabilities,
                                                          sess.include_infile)]
    /\ pc' = "classified"
    /\ UNCHANGED <<wire, peer, c2s, s2c, sent, lastSend, lastRecv, nsent, srv>>

ClassifyFactory ==
    /\ pc = "call"
    /\ sess.classifier = "MySQLPacketFactory"
    /\ sess' = [sess EXCEPT !.result = MySQLPacketFactory_try_parse_response(
                                           sess.data, sess.capabilities)]
    /\ pc' = "classified"
    /\ UNCHANGED <<wire, peer, c2s, s2c, sent, lastSend, lastRecv, nsent, srv>>

NextClassify == Classify \/ ClassifyFactory

SpecClassify == InitClassify /\ [][NextClassify]_vars

\* ---------------------------------------------------------- SpecConstructor
\* The session classes are constructed with compressed = False or True.
InitConstructor ==
    /\ \E compressed \in BOOLEAN :
         /\ sess \in ConstructedSessions(compressed)
         /\ compressed => sess.variant # "NativePasswordHandshake"
    /\ wire = NewFramer(FALSE, MidThreshold, 0, 0)
    /\ peer = NewFramer(FALSE, MidThreshold, 0, 0)
    /\ c2s = <<>>
    /\ s2c = <<>>
    /\ sent = <<>>
    /\ lastSend = NoSend
    /\ lastRecv = NoRecv
    /\ nsent = 0
    /\ srv = NoServer
    /\ pc = "connect"

SpecConstructor == InitConstructor /\ [][NextHandshake]_vars

\* ------------------------------------------------------------ SpecLifecycle
\* The caller may also call a command before connect(), after a connect()
\* that failed, and after quit(); the command is followed up to its write,
\* after which it waits for a reply.
SessionCommands ==
    {[op |-> "ping", data |-> Packets_PING], [op |-> "reset", data |-> Packets_RESET],
     [op |-> "quit", data |-> Packets_QUIT],
     [op |-> "change_database", data |-> create_change_database_command(SessionDatabase)],
     [op |-> "query", data |-> create_query(SessionStatement)]}

CommandOutOfTurn(c) ==
    /\ pc \in {"connect", "failed", "closed"}
    /\ sess.variant \in {"ProtoMySQLBase", "ProtoMySQL"}
    /\ CommandSend(c.op, c.data, "waiting")

NextLifecycle ==
    \/ NextHandshake
    \/ \E c \in SessionCommands : CommandOutOfTurn(c)

SpecLifecycle == InitHandshake /\ [][NextLifecycle]_vars

\* ------------------------------------------------------------ SpecDatatypes
\* Reader and Writer of datatypes.py on integers up to 2^64 - 1.  An integer
\* is held as its LenencWidth little-endian digits of base 256, so that the
\* eight-byte form is computed without loss.
LenencWidth == 8

Wide(digits) == digits \o [i \in 1..(LenencWidth - Len(digits)) |-> 0]

Less(a, b) ==
    \E i \in 1..LenencWidth :
        /\ a[i] < b[i]
        /\ \A j \in (i + 1)..LenencWidth : a[j] = b[j]

\* int.from_bytes(value, byteorder='little', signed=False)
int_from_bytes(value) == Wide(value)

\* int.to_bytes(value, length, byteorder='little', signed=False)
int_to_bytes(length, value) ==
    IF \E i \in (length + 1)..LenencWidth : value[i] # 0
    THEN [ok |-> FALSE, err |-> "OverflowError", data |-> <<>>]
    ELSE [ok |-> TRUE, err |-> "none", data |-> Take(value, length)]

\* Writer._write_lenenc_int
Writer_write_lenenc_int(value) ==
    LET tagged(tag, r) == IF r.ok THEN [r EXCEPT !.data = tag \o @] ELSE r
    IN  IF Less(value, Wide(<<251>>)) THEN int_to_bytes(1, value)
        ELSE IF Less(value, Wide(<<255, 255>>)) THEN tagged(<<252>>, int_to_bytes(2, value))
        ELSE IF Less(value, Wide(<<255, 255, 255>>))
        THEN tagged(<<253>>, int_to_bytes(3, value))
        ELSE tagged(<<254>>, int_to_bytes(8, value))

\* A reader that takes the eight-byte form for a four-byte one.
Reader_read_lenenc_int_four_byte(data) ==
    IF data = <<>> THEN [ok |-> FALSE, err |-> "IndexError", value |-> <<>>, rest |-> data]
    ELSE IF data[1] < 251
    THEN [ok |-> TRUE, err |-> "none", value |-> int_from_bytes(Take(data, 1)),
          rest |-> Drop(data, 1)]
    ELSE IF data[1] = 252
    THEN [ok |-> TRUE, err |-> "none", value |-> int_from_bytes(Take(Drop(data, 1), 2)),
          rest |-> Drop(data, 3)]
    ELSE IF data[1] = 253
    THEN [ok |-> TRUE, err |-> "none", value |-> int_from_bytes(Take(Drop(data, 1), 3)),
          rest |-> Drop(data, 4)]
    ELSE IF data[1] = 254
    THEN [ok |-> TRUE, err |-> "none", value |-> int_from_bytes(Take(Drop(data, 1), 4)),
          rest |-> Drop(data, 5)]
    ELSE [ok |-> FALSE, err |-> "ValueError", value |-> <<>>, rest |-> data]

\* Reader._read_lenenc_int: data[0] raises IndexError on an empty buffer, the
\* slices take what is there.
Reader_read_lenenc_int(data) ==
    IF data = <<>> THEN [ok |-> FALSE, err |-> "IndexError", value |-> <<>>, rest |-> data]
    ELSE IF data[1] < 251
    THEN [ok |-> TRUE, err |-> "none", value |-> int_from_bytes(Take(data, 1)),
          rest |-> Drop(data, 1)]
    ELSE IF data[1] = 252
    THEN [ok |-> TRUE, err |-> "none", value |-> int_from_bytes(Take(Drop(data, 1), 2)),
          rest |-> Drop(data, 3)]
    ELSE IF data[1] = 253
    THEN [ok |-> TRUE, err |-> "none", value |-> int_from_bytes(Take(Drop(data, 1), 3)),
          rest |-> Drop(data, 4)]
    ELSE IF data[1] = 254
    THEN [ok |-> TRUE, err |-> "none", value |-> int_from_bytes(Take(Drop(data, 1), 8)),
          rest |-> Drop(data, 9)]
    ELSE [ok |-> FALSE, err |-> "ValueError", value |-> <<>>, rest |-> data]

\* Reader._splice: data[:length] and data[length:].
Reader_splice(data, length) ==
    [ok |-> TRUE, err |-> "none", value |-> Take(data, length), rest |-> Drop(data, length)]

\* Reader.bytes
Reader_bytes(data, length) == Reader_splice(data, length)

\* Reader.int
Reader_int(data, length) ==
    LET K(r) == [r EXCEPT !.value = int_from_bytes(@)]
    IN  K(Reader_splice(data, length))

\* The length a slice is taken with: an integer of more than two digits is
\* longer than every buffer.
SliceLength(value) ==
    IF \E i \in 3..LenencWidth : value[i] # 0 THEN 65536 ELSE value[1] + 256 * value[2]

\* Reader.bytes_lenenc
Reader_bytes_lenenc(data) ==
    LET K(n) == IF ~n.ok THEN n ELSE Reader_splice(n.rest, SliceLength(n.value))
    IN  K(Reader_read_lenenc_int(data))

\* Reader.bytes_null: data.partition(b'\x00')
Reader_bytes_null(data) ==
    IF \E i \in DOMAIN data : data[i] = 0
    THEN LET i == CHOOSE k \in DOMAIN data :
                      data[k] = 0 /\ \A j \in 1..(k - 1) : data[j] # 0
         IN  [ok |-> TRUE, err |-> "none", value |-> Take(data, i - 1), rest |-> Drop(data, i)]
    ELSE [ok |-> TRUE, err |-> "none", value |-> data, rest |-> <<>>]

\* The integers written: the ends of each form and the largest integer.
LenencValues ==
    {Wide(digits) :
        digits \in {<<d>> : d \in {0, 1, 250, 251, 252, 253, 254, 255}}
               \cup {<<0, 1>>, <<251, 251>>, <<254, 255>>, <<255, 255>>}
               \cup {<<0, 0, 1>>, <<254, 255, 255>>, <<255, 255, 255>>}
               \cup {<<0, 0, 0, 1>>, <<255, 255, 255, 255>>, <<0, 0, 0, 0, 1>>,
                     <<0, 0, 0, 0, 0, 0, 0, 128>>,
                     <<255, 255, 255, 255, 255, 255, 255, 255>>}}

\* The buffers read: what follows a written integer, and the buffers the
\* reader's methods are called on.
Buffers ==
    {<<>>, <<0>>, <<1>>, <<97, 98>>, <<97, 98, 99>>, <<97, 0, 98>>, <<2, 97, 98, 99>>,
     <<5, 97, 98>>, <<251, 1, 2>>, <<255, 1>>, <<252, 1>>, <<253, 1, 0, 0, 9>>}

Lengths == {1, 2, 4}

NoRead == [ok |-> TRUE, err |-> "none", value |-> <<>>, rest |-> <<>>]

InitDatatypes ==
    /\ \E value \in LenencValues, buffer \in Buffers, length \in Lengths :
           sess = [value |-> value, buffer |-> buffer, length |-> length, op |-> "none",
                   written |-> [ok |-> TRUE, err |-> "none", data |-> <<>>],
                   result |-> NoRead]
    /\ wire = NewFramer(FALSE, MidThreshold, 0, 0)
    /\ peer = NewFramer(FALSE, MidThreshold, 0, 0)
    /\ c2s = <<>>
    /\ s2c = <<>>
    /\ sent = <<>>
    /\ lastSend = NoSend
    /\ lastRecv = NoRecv
    /\ nsent = 0
    /\ srv = NoServer
    /\ pc = "start"

\* Writer().int_lenenc(value)
Writer_int_lenenc ==
    /\ pc = "start"
    /\ sess' = [sess EXCEPT !.op = "Writer.int_lenenc",
                            !.written = Writer_write_lenenc_int(sess.value)]
    /\ pc' = "written"
    /\ UNCHANGED <<wire, peer, c2s, s2c, sent, lastSend, lastRecv, nsent, srv>>

\* Reader(written + buffer).int_lenenc()
Reader_int_lenenc_written ==
    /\ pc = "written"
    /\ sess.written.ok
    /\ sess' = [sess EXCEPT !.op = "round_trip",
                            !.result = Reader_read_lenenc_int(sess.written.data
                                                              \o sess.buffer)]
    /\ pc' = "read"
    /\ UNCHANGED <<wire, peer, c2s, s2c, sent, lastSend, lastRecv, nsent, srv>>

\* One method of Reader(buffer).
ReaderCall(op, result) ==
    /\ pc = "start"
    /\ sess' = [sess EXCEPT !.op = op, !.result = result]
    /\ pc' = "done"
    /\ UNCHANGED <<wire, peer, c2s, s2c, sent, lastSend, lastRecv, nsent, srv>>

NextDatatypes ==
    \/ Writer_int_lenenc
    \/ Reader_int_lenenc_written
    \/ ReaderCall("int", Reader_int(sess.buffer, sess.length))
    \/ ReaderCall("bytes", Reader_bytes(sess.buffer, sess.length))
    \/ ReaderCall("bytes_lenenc", Reader_bytes_lenenc(sess.buffer))
    \/ ReaderCall("int_lenenc", Reader_read_lenenc_int(sess.buffer))
    \/ ReaderCall("bytes_null", Reader_bytes_null(sess.buffer))

SpecDatatypes == InitDatatypes /\ [][NextDatatypes]_vars

\* ----------------------------------------------------------------- SpecRows
\* An established session runs queries whose replies are result sets: the
\* server sends the column count, the column definitions, rows and the
\* terminator.
ColumnCounts == {1, 2}

\* Rows whose first value is the empty string, and a row of two values
\* whose first is NULL.
RowEmpty == <<0>>

RowEmptyFirst == <<0, 2, 97, 98>>

RowNullFirst == <<251, 1, 97>>

RowBodies(n) == IF n = 1 THEN {Row1, RowNull, RowEmpty}
                ELSE {Row2, RowNullFirst, RowEmptyFirst}

RowStreams(n) == {<<a>> : a \in RowBodies(n)} \cup {<<a, b>> : a, b \in RowBodies(n)}

ResultSetHeader(n) == <<ColumnCount(n)>> \o [i \in 1..n |-> ColumnDef]

RowScripts ==
    UNION {{ResultSetHeader(n) \o rows \o <<EOFm>> : rows \in RowStreams(n)} :
           n \in ColumnCounts}

\* The list read_values yields for one row: NullSafeReader.bytes_lenenc once
\* per column, None (here <<-1>>) for 0xFB.
RECURSIVE row_values(_, _)
row_values(data, columns) ==
    IF columns = 0 THEN [ok |-> TRUE, err |-> "none", values |-> <<>>]
    ELSE IF data = <<>> THEN [ok |-> FALSE, err |-> "IndexError", values |-> <<>>]
    ELSE IF data[1] = 251
    THEN LET K(r) == [r EXCEPT !.values = <<(<<-1>>)>> \o @]
         IN  K(row_values(Drop(data, 1), columns - 1))
    ELSE LET K(a) ==
                 IF ~a.ok THEN [ok |-> FALSE, err |-> a.err, values |-> <<>>]
                 ELSE LET K2(r) == [r EXCEPT !.values = <<Take(a.rest, a.value)>> \o @]
                      IN  K2(row_values(Drop(a.rest, a.value), columns - 1))
         IN  K(int_lenenc(data))

\* Capabilities a session may have negotiated.
RowCapabilities ==
    {{PROTOCOL_41, SECURE_CONNECTION} \cup extra : extra \in SUBSET {DEPRECATE_EOF, COMPRESS}}

\* The session object as a successful connect() leaves it.
EstablishedSession(variant, caps) ==
    [NoSession EXCEPT
         !.variant = variant, !.declared = capabilities_client,
         !.wire_class = IF COMPRESS \in caps THEN "ProtoCompressed" ELSE "ProtoPlain",
         !.initialized = TRUE,
         !.capabilities_server = caps \cup {MYSQL, PLUGIN_AUTH},
         !.capabilities = caps, !.factory = caps, !.client_flag = caps,
         !.events = <<"recv_handshake", "response", "auth_reply", "initialize_wire">>,
         !.acked = TRUE, !.frozen = caps]

InitRows ==
    /\ \E variant \in {"ProtoMySQLBase", "ProtoMySQL"}, caps \in RowCapabilities :
         /\ sess = EstablishedSession(variant, caps)
         /\ wire = NewFramer(COMPRESS \in caps, MidThreshold, 0, 0)
         /\ peer = NewFramer(COMPRESS \in caps, MidThreshold, 0, 0)
    /\ c2s = <<>>
    /\ s2c = <<>>
    /\ sent = <<>>
    /\ lastSend = NoSend
    /\ lastRecv = NoRecv
    /\ nsent = 0
    /\ srv = NoServer
    /\ pc = "idle"

\* An ERR packet (code 1045, state 00000, no text), and the replies of a
\* query the server refuses at once, after the column definitions, or after
\* a row.
ERRc == <<255, 21, 4, 35, 48, 48, 48, 48, 48>>

ErrScripts ==
    {<<ERRc>>}
        \cup {ResultSetHeader(n) \o <<ERRc>> : n \in ColumnCounts}
        \cup {ResultSetHeader(1) \o <<Row1, ERRc>>, ResultSetHeader(2) \o <<Row2, ERRc>>}

NextRows ==
    \/ Session_query(SessionStatement)
    \/ \E script \in RowScripts : ServerScript(script)
    \/ \E script \in ErrScripts : ServerScript(script)
    \/ SessionRead

SpecRows == InitRows /\ [][NextRows]_vars

\* ---------------------------------------------------------------- SpecNames
\* parse_result_set builds the name-to-index dictionary of the rows from the
\* columns it read, and a row is indexed by a name.  Here sess is the result
\* set: the name_virtual of each column, the values of one row, the
\* dictionary, the name asked for and the value handed back.
MaxNames == 3

ColumnNames == {"a", "b", "c"}

ColumnLists == UNION {[1..n -> ColumnNames] : n \in 1..MaxNames}

\* The values of a row, one per column, all different.
RowData == {[i \in 1..MaxNames |-> 10 * i], [i \in 1..MaxNames |-> 100 - i]}

\* {column.name_virtual: i for i, column in enumerate(columns)}: the entries
\* are stored in column order, a later one replaces an earlier one of the
\* same name.  Indexes count from 0.
RECURSIVE names_from(_, _, _)
names_from(columns, i, names) ==
    IF i > Len(columns) THEN names
    ELSE names_from(columns, i + 1,
                    [nm \in DOMAIN names \cup {columns[i]} |->
                         IF nm = columns[i] THEN i - 1 ELSE names[nm]])

names_of(columns) == names_from(columns, 1, <<>>)

\* Row.__getitem__ with a name: self.data[self.names[item]]
Row_getitem(names, data, item) == data[names[item] + 1]

InitNames ==
    /\ \E columns \in ColumnLists, data \in RowData :
       \E item \in {columns[i] : i \in DOMAIN columns} :
            sess = [columns |-> columns, data |-> Take(data, Len(columns)),
                    names |-> <<>>, item |-> item, value |-> -1]
    /\ wire = NewFramer(FALSE, MidThreshold, 0, 0)
    /\ peer = NewFramer(FALSE, MidThreshold, 0, 0)
    /\ c2s = <<>>
    /\ s2c = <<>>
    /\ sent = <<>>
    /\ lastSend = NoSend
    /\ lastRecv = NoRecv
    /\ nsent = 0
    /\ srv = NoServer
    /\ pc = "columns"

\* parse_result_set after the columns have been read.
BuildNames ==
    /\ pc = "columns"
    /\ sess' = [sess EXCEPT !.names = names_of(sess.columns)]
    /\ pc' = "rows"
    /\ UNCHANGED <<wire, peer, c2s, s2c, sent, lastSend, lastRecv, nsent, srv>>

\* row[name]
GetItem ==
    /\ pc = "rows"
    /\ sess' = [sess EXCEPT !.value = Row_getitem(sess.names, sess.data, sess.item)]
    /\ pc' = "value"
    /\ UNCHANGED <<wire, peer, c2s, s2c, sent, lastSend, lastRecv, nsent, srv>>

NextNames == BuildNames \/ GetItem

SpecNames == InitNames /\ [][NextNames]_vars

\* ---------------------------------------------------------------- SpecTasks
\* Two tasks call operations of one established session.  A task runs until
\* its next await that has to wait: it sends its command and calls recv(),
\* which takes self.seq as the argument of read_message and then waits for
\* bytes; it is resumed once bytes have arrived.  Here sess is the session object and the
\* two tasks; sent is the queue of commands the server has not answered,
\* srv.pending the owners of the replies on the channel.
Tasks == {1, 2}

TaskOps == {"ping", "query"}

\* The server's OK for the command of task t: affected_rows is t.
TaskReply(t) == <<0, t, 0, 2, 0, 0, 0>>

NoTask == [op |-> "none", pc |-> "start", seq |-> 0, result |-> NoResult]

InitTasks ==
    /\ \E variant \in {"ProtoMySQLBase", "ProtoMySQL"}, caps \in RowCapabilities :
       \E ops \in [Tasks -> TaskOps] :
         /\ sess = [session |-> EstablishedSession(variant, caps),
                    tasks |-> [t \in Tasks |-> [NoTask EXCEPT !.op = ops[t]]]]
         /\ wire = NewFramer(COMPRESS \in caps, MidThreshold, 0, 0)
         /\ peer = NewFramer(COMPRESS \in caps, MidThreshold, 0, 0)
    /\ c2s = <<>>
    /\ s2c = <<>>
    /\ sent = <<>>
    /\ lastSend = NoSend
    /\ lastRecv = NoRecv
    /\ nsent = 0
    /\ srv = NoServer
    /\ pc = "idle"

\* Task t calls ping() or standard_query(): send() runs, the task then
\* awaits the reply.
TaskSend(t) ==
    /\ sess.tasks[t].pc = "start"
    /\ \E k \in {ProtoMySQLBase_send(sess.session, [f |-> wire, out |-> c2s, inp |-> s2c],
                                     IF sess.tasks[t].op = "ping" THEN Packets_PING
                                     ELSE create_query(SessionStatement))} :
           /\ wire' = k.io.f
           /\ c2s' = k.io.out
           /\ sent' = Append(sent, t)
           /\ lastSend' = [NoSend EXCEPT !.op = sess.tasks[t].op, !.ok = k.ok,
                                         !.err = k.err, !.s0 = wire.seq,
                                         !.s1 = k.io.f.seq, !.sc1 = k.io.f.seq_compressed]
           /\ sess' = [sess EXCEPT !.tasks[t].pc = "awaiting",
                                   !.tasks[t].seq = k.io.f.seq]
    /\ nsent' = nsent + 1
    /\ UNCHANGED <<peer, s2c, lastRecv, srv, pc>>

\* The server answers the oldest command it has: the command was one packet
\* at sequence 0, the reply starts at 1.
TaskServerReply ==
    /\ sent # <<>>
    /\ \E w \in {wire_send([f |-> [peer EXCEPT !.seq = 1, !.seq_compressed = 1],
                            out |-> s2c, inp |-> <<>>], TaskReply(Head(sent)))} :
           /\ s2c' = w.io.out
           /\ peer' = w.io.f
    /\ srv' = [srv EXCEPT !.pending = Append(@, Head(sent))]
    /\ sent' = Tail(sent)
    /\ UNCHANGED <<wire, c2s, lastSend, lastRecv, nsent, pc, sess>>

\* Task t is resumed with bytes on the channel: the rest of its operation.
TaskRead(t) ==
    /\ sess.tasks[t].pc = "awaiting"
    /\ s2c # <<>>
    /\ \E io \in {[f |-> [wire EXCEPT !.seq = sess.tasks[t].seq], out |-> c2s,
                   inp |-> s2c]} :
       \E k \in {IF sess.tasks[t].op = "query" THEN standard_query(sess.session, io)
                 ELSE command_ack(sess.session, io)} :
           /\ wire' = k.io.f
           /\ s2c' = k.io.inp
           /\ sess' = [sess EXCEPT !.tasks[t].pc = "done",
                                   !.tasks[t].result =
                                       [ok |-> k.ok, err |-> k.err, type |-> k.type,
                                        packet |-> k.packet, nrecv |-> k.nrecv,
                                        ncols |-> k.ncols, ncolumns |-> k.ncolumns,
                                        nrows |-> k.nrows]]
           /\ lastRecv' = [NoRecv EXCEPT !.op = sess.tasks[t].op, !.ok = k.ok,
                                         !.err = k.err, !.s0 = wire.seq,
                                         !.sc0 = wire.seq_compressed]
    /\ srv' = [srv EXCEPT !.pending = IF @ = <<>> THEN @ ELSE Tail(@)]
    /\ UNCHANGED <<peer, c2s, sent, lastSend, nsent, pc>>

NextTasks ==
    \/ \E t \in Tasks : TaskSend(t)
    \/ TaskServerReply
    \/ \E t \in Tasks : TaskRead(t)

SpecTasks == InitTasks /\ [][NextTasks]_vars

\* ------------------------------------------------------------- SpecCommands
\* The commands of an established session with their text arguments: a text
\* is a string of code points, and Writer.str_eof encodes it with the codec
\* of the session's charset.
CodePoints == {97, 233, 8364, 20013}

Texts == {<<>>, <<97>>, <<97, 233>>, <<8364>>, <<20013, 97>>}

\* The charset names offered to connect(), and the Python codec the charset
\* table holds for each (utf8mb4 / utf8mb3 -> utf8, latin1 -> cp1252).
CharsetNames == {"utf8mb4", "latin1"}

PYTHON_CHARSETS(charset) == IF charset = "latin1" THEN "cp1252" ELSE "utf8"

\* str.encode for one code point below 65536: UTF-8, and Windows-1252 on the
\* code points of CodePoints (the euro sign is 0x80 there).
encode_code_point(cp, codec) ==
    IF codec = "utf8"
    THEN [ok |-> TRUE,
          data |-> IF cp < 128 THEN <<cp>>
                   ELSE IF cp < 2048 THEN <<192 + (cp \div 64), 128 + (cp % 64)>>
                   ELSE <<224 + (cp \div 4096), 128 + ((cp \div 64) % 64), 128 + (cp % 64)>>]
    ELSE IF cp < 128 \/ (cp >= 160 /\ cp < 256) THEN [ok |-> TRUE, data |-> <<cp>>]
    ELSE IF cp = 8364 THEN [ok |-> TRUE, data |-> <<128>>]
    ELSE [ok |-> FALSE, data |-> <<>>]

\* Writer._to_bytes: value.encode(self._encoding)
RECURSIVE Writer_to_bytes(_, _)
Writer_to_bytes(value, codec) ==
    IF value = <<>> THEN [ok |-> TRUE, err |-> "none", data |-> <<>>]
    ELSE LET K(c) ==
                 LET K2(r) == IF ~r.ok THEN r ELSE [r EXCEPT !.data = c.data \o @]
                 IN  IF ~c.ok
                     THEN [ok |-> FALSE, err |-> "UnicodeEncodeError", data |-> <<>>]
                     ELSE K2(Writer_to_bytes(Tail(value), codec))
         IN  K(encode_code_point(Head(value), codec))

\* Writer(charset).int(1, command) followed by str_eof(text).
command_with_text(command, text, codec) ==
    LET K(r) == IF ~r.ok THEN r ELSE [r EXCEPT !.data = <<command>> \o @]
    IN  K(Writer_to_bytes(text, codec))

\* A create_query that writes the statement in UTF-8 whatever the charset.
ProtoMySQLResults_create_query_utf8(ss, stmt) == command_with_text(3, stmt, "utf8")

\* ProtoMySQLResults.create_query: Writer(self._charset); create_query of
\* src/driver.py: Writer(), whose codec is utf-8.
ProtoMySQLResults_create_query(ss, stmt) ==
    command_with_text(3, stmt, IF ss.variant = "ProtoMySQL" THEN "utf8"
                               ELSE PYTHON_CHARSETS(ss.charset))

\* create_change_database_command(charset, database)
commands_create_change_database_command(ss, database) ==
    command_with_text(2, database, PYTHON_CHARSETS(ss.charset))

\* A command body without text.
CommandPacket(data) == [ok |-> TRUE, err |-> "none", data |-> data]

NoCommand == [op |-> "none", text |-> <<>>, sent |-> FALSE, err |-> "none", n |-> 0]

\* connect() of src/driver.py accepts utf8mb4 alone (CHARSETS has one key).
InitCommands ==
    /\ \E variant \in {"ProtoMySQLBase", "ProtoMySQL"}, compressed \in BOOLEAN :
       \E charset \in IF variant = "ProtoMySQL" THEN {"utf8mb4"} ELSE CharsetNames :
            /\ sess = [session |-> EstablishedSession(
                                       variant,
                                       {PROTOCOL_41, SECURE_CONNECTION}
                                           \cup (IF compressed THEN {COMPRESS} ELSE {})),
                       variant |-> variant, charset |-> charset, command |-> NoCommand]
            /\ wire = NewFramer(compressed, MidThreshold, 0, 0)
            /\ peer = NewFramer(compressed, MidThreshold, 0, 0)
    /\ c2s = <<>>
    /\ s2c = <<>>
    /\ sent = <<>>
    /\ lastSend = NoSend
    /\ lastRecv = NoRecv
    /\ nsent = 0
    /\ srv = NoServer
    /\ pc = "idle"

\* A command method up to the point where it waits for its reply or
\* returns: the body is built, send() resets the framer and sends it.
CommandCall(op, text, body, after) ==
    /\ pc = "idle"
    /\ sess.command.n < MaxOps
    /\ IF ~body.ok
       THEN /\ sess' = [sess EXCEPT !.command = [op |-> op, text |-> text, sent |-> FALSE,
                                                 err |-> body.err, n |-> @.n + 1]]
            /\ UNCHANGED <<wire, c2s, lastSend, pc, sent>>
       ELSE \E r \in {wire_send([f |-> wire_reset(wire), out |-> c2s, inp |-> s2c],
                                body.data)} :
                /\ wire' = r.io.f
                /\ c2s' = r.io.out
                /\ sent' = Append(sent, body.data)
                /\ lastSend' = [op |-> op, m |-> body.data, s0 |-> wire.seq,
                                sc0 |-> wire.seq_compressed, ok |-> r.ok, err |-> r.err,
                                log |-> r.log, outer |-> r.outer, buffered |-> r.buffered,
                                s1 |-> r.io.f.seq, sc1 |-> r.io.f.seq_compressed]
                /\ sess' = [sess EXCEPT !.command = [op |-> op, text |-> text, sent |-> TRUE,
                                                     err |-> r.err, n |-> @.n + 1]]
                /\ pc' = IF r.ok THEN after ELSE "idle"
    /\ UNCHANGED <<peer, s2c, lastRecv, nsent, srv>>

Command_ping == CommandCall("ping", <<>>, CommandPacket(Packets_PING), "awaiting")

Command_reset == CommandCall("reset", <<>>, CommandPacket(Packets_RESET), "awaiting")

\* quit() ends with its send.
Command_quit == CommandCall("quit", <<>>, CommandPacket(Packets_QUIT), "returned")

Command_change_database(database) ==
    CommandCall("change_database", database,
                commands_create_change_database_command(sess, database), "awaiting")

Command_query(stmt) ==
    CommandCall("query", stmt, ProtoMySQLResults_create_query(sess, stmt), "awaiting")

\* The server takes the command and answers OK.
CommandServerReply ==
    /\ pc = "awaiting"
    /\ s2c = <<>>
    /\ \E io \in {server_send_all([f |-> [peer EXCEPT !.seq = wire.seq,
                                                      !.seq_compressed = wire.seq_compressed],
                                   out |-> s2c, inp |-> <<>>], <<OKm>>)} :
           /\ s2c' = io.out
           /\ peer' = io.f
    /\ c2s' = <<>>
    /\ UNCHANGED <<wire, sent, lastSend, lastRecv, nsent, srv, pc, sess>>

\* The rest of the command method: the reply is read.
CommandRead ==
    /\ pc = "awaiting"
    /\ s2c # <<>>
    /\ \E k \in {IF sess.command.op = "query"
                 THEN standard_query(sess.session, [f |-> wire, out |-> c2s, inp |-> s2c])
                 ELSE command_ack(sess.session, [f |-> wire, out |-> c2s, inp |-> s2c])} :
           /\ wire' = k.io.f
           /\ s2c' = k.io.inp
           /\ lastRecv' = [NoRecv EXCEPT !.op = sess.command.op, !.ok = k.ok, !.err = k.err,
                                         !.s0 = wire.seq, !.sc0 = wire.seq_compressed]
    /\ pc' = "idle"
    /\ UNCHANGED <<peer, c2s, sent, lastSend, nsent, srv, sess>>

NextCommands ==
    \/ Command_ping
    \/ Command_reset
    \/ Command_quit
    \/ \E database \in Texts : Command_change_database(database)
    \/ \E stmt \in Texts : Command_query(stmt)
    \/ CommandServerReply
    \/ CommandRead

SpecCommands == InitCommands /\ [][NextCommands]_vars

\* ------------------------------------------------------------------ claims
CeilDiv(a, b) == (a + b - 1) \div b

\* C1: in plain mode every recv() of the loop-back pair returns exactly the
\* oldest message sent and not yet received, reads exactly the fragments
\* that send() emitted for it, and leaves no byte in the channel once every
\* message sent has been received.
C1_PlainRoundTrip ==
    (lastRecv.op = "recv" /\ ~peer.compressed) =>
        /\ lastRecv.ok
        /\ lastRecv.known
        /\ lastRecv.data = lastRecv.expected
        /\ Len(lastRecv.log) = lastRecv.nfrag
        /\ (sent = <<>> => c2s = <<>>)

\* A message whose length is a non-zero multiple of MAX_PACKET was sent from
\* a counter other than 0 and received back.
C1_Witness ==
    /\ lastRecv.op = "recv" /\ ~peer.compressed /\ lastRecv.ok
    /\ Len(lastRecv.data) = 2 * MAX_PACKET
    /\ lastRecv.s0 = 255
    /\ Len(lastRecv.log) = 3

\* C2: a send of L bytes emits ceil(L / MAX_PACKET) fragments when L is not a
\* multiple of MAX_PACKET and L / MAX_PACKET + 1 fragments, the last one
\* empty, when it is; no body exceeds MAX_PACKET and all but the last are
\* exactly MAX_PACKET long.
C2_FragmentCount ==
    lastSend.op = "send" =>
        LET L == Len(lastSend.m)
            k == Len(lastSend.log)
        IN  /\ (L % MAX_PACKET # 0 => k = CeilDiv(L, MAX_PACKET))
            /\ (L % MAX_PACKET = 0 =>
                    k = L \div MAX_PACKET + 1 /\ lastSend.log[k].body = <<>>)
            /\ (L = 0 => k = 1)
            /\ \A i \in 1..k : Len(lastSend.log[i].body) <= MAX_PACKET
            /\ \A i \in 1..(k - 1) : Len(lastSend.log[i].body) = MAX_PACKET
            /\ Flatten([i \in 1..k |-> lastSend.log[i].body]) = lastSend.m

\* The empty message has been sent by the plain framer as one fragment, and
\* nothing else is in the channel.
C2_Witness ==
    /\ lastSend.op = "send" /\ ~wire.compressed /\ nsent = 1
    /\ lastSend.m = <<>>
    /\ Len(lastSend.log) = 1
    /\ Len(c2s) = 4

\* C3: the k fragments of one send carry the sequence numbers s, s+1, ...,
\* s+k-1 modulo 256 in order, and the counter afterwards is (s + k) mod 256;
\* the same holds of the outer counter over the envelopes of a completed
\* compressed send.
C3_SequenceContinuity ==
    lastSend.op = "send" =>
        LET k == Len(lastSend.log)
            j == Len(lastSend.outer)
        IN  /\ \A i \in 1..k : lastSend.log[i].seq = (lastSend.s0 + i - 1) % 256
            /\ wire.seq = (lastSend.s0 + k) % 256
            /\ \A i \in 1..j : lastSend.outer[i].seq = (lastSend.sc0 + i - 1) % 256
            /\ lastSend.ok => wire.seq_compressed = (lastSend.sc0 + j) % 256

\* A send that started at 255 wrote 255, 0, 1.
C3_Witness ==
    /\ lastSend.op = "send"
    /\ lastSend.s0 = 255
    /\ Len(lastSend.log) = 3
    /\ lastSend.log[2].seq = 0
    /\ wire.seq = 2

\* C4: whenever recv() has read a fragment whose sequence number is not the
\* expected one (the framer's counter for the first fragment, the previous
\* plus one modulo 256 for the later ones), recv() fails with a sequence
\* error at that fragment, returns no message and leaves the counter alone;
\* and a recv() that succeeds has read only fragments with the expected
\* numbers.
C4_SequenceCheck ==
    lastRecv.op = "recv" =>
        LET log == lastRecv.log
            unexpected(i) == log[i].got /\ log[i].seq # (lastRecv.s0 + i - 1) % 256
        IN  /\ \A i \in 1..Len(log) :
                 unexpected(i) =>
                    /\ ~lastRecv.ok
                    /\ lastRecv.err = "sequence"
                    /\ lastRecv.data = <<>>
                    /\ i = Len(log)
                    /\ wire.seq = lastRecv.s0
            /\ lastRecv.ok =>
                    /\ \A i \in 1..Len(log) : ~unexpected(i)
                    /\ wire.seq = (lastRecv.s0 + Len(log)) % 256

\* In plain mode a full first fragment arrived with the expected number 255
\* and the second one with a number other than 0: recv() failed.
C4_Witness ==
    /\ lastRecv.op = "recv" /\ ~wire.compressed
    /\ lastRecv.s0 = 255
    /\ Len(lastRecv.log) = 2
    /\ lastRecv.log[1].seq = 255 /\ lastRecv.log[1].got
    /\ lastRecv.log[2].got /\ lastRecv.log[2].seq # 0
    /\ lastRecv.err = "sequence"

\* C5: every command of the session is emitted with inner sequence 0 on its
\* first fragment and, in compressed mode, outer sequence 0 on its first
\* envelope, whatever the two counters were before it; afterwards each
\* counter holds the number of fragments of its own layer, modulo 256.
C5_CommandsStartAtZero ==
    lastSend.op = "command" =>
        /\ Len(lastSend.log) >= 1
        /\ lastSend.log[1].seq = 0
        /\ lastSend.s1 = Len(lastSend.log) % 256
        /\ (wire.compressed /\ lastSend.ok) =>
                /\ Len(lastSend.outer) >= 1
                /\ lastSend.sc1 = Len(lastSend.outer) % 256
        /\ \A j \in 1..Len(lastSend.outer) : lastSend.outer[j].seq = (j - 1) % 256

\* A later command of a compressed session found both counters non-zero and
\* different, started both layers at 0 and left them different again.
C5_Witness ==
    /\ lastSend.op = "command" /\ wire.compressed /\ lastSend.ok
    /\ nsent >= 2
    /\ lastSend.s0 # 0 /\ lastSend.sc0 # 0 /\ lastSend.s0 # lastSend.sc0
    /\ lastSend.log[1].seq = 0
    /\ lastSend.outer[1].seq = 0
    /\ lastSend.s1 # lastSend.sc1

\* C8: while bytes are appended to the out-buffer by write() and no send()
\* has run, the channel stays empty as long as fewer than MAX_PACKET bytes
\* have been appended, and holds a flushed outer packet as soon as MAX_PACKET
\* bytes have been appended.
C8_EagerFlush ==
    (lastSend.op = "write" /\ nsent = 0) =>
        /\ lastSend.buffered < MAX_PACKET => c2s = <<>>
        /\ lastSend.buffered >= MAX_PACKET => c2s # <<>>

\* C9: in compressed mode, when the server has put every byte of the messages
\* it framed into well-formed envelopes, however it cut them, recv() returns
\* the oldest message not yet received.
C9_AnyPartition ==
    (lastRecv.op = "recv" /\ wire.compressed /\ lastRecv.complete) =>
        /\ lastRecv.ok
        /\ lastRecv.data = lastRecv.expected

\* The compressed messages fetched during the last recv(), in order.
FetchCalls == Flatten([i \in 1..Len(lastRecv.log) |-> lastRecv.log[i].calls])

\* The bytes an envelope stands for.
EnvelopeData(e) ==
    IF e.uncompressed_length > 0 THEN decompress(e.payload).data ELSE e.payload

\* The bytes the plain layer took from the in-buffer during the last recv().
TakenBytes ==
    Flatten([i \in 1..Len(lastRecv.log) |->
                (IF lastRecv.log[i].hdr
                 THEN to_bytes(3, lastRecv.log[i].length) \o to_bytes(1, lastRecv.log[i].seq)
                 ELSE <<>>)
                \o lastRecv.log[i].body])

\* C10: an envelope read with uncompressed_length > 0 whose payload
\* decompresses to another number of bytes makes the read, and recv(), fail
\* with the length error; the in-buffer then holds exactly what the earlier
\* compressed messages brought: each envelope's decompressed payload when it
\* declared a length, its payload verbatim when it declared 0, and nothing of
\* the compressed message that failed.
C10_DeclaredLength ==
    (lastRecv.op = "recv" /\ wire.compressed) =>
        LET calls == FetchCalls
        IN  /\ \A c \in 1..Len(calls) :
                 \A j \in 1..Len(calls[c].envs) :
                    LET e == calls[c].envs[j]
                    IN  (/\ e.read
                         /\ e.uncompressed_length > 0
                         /\ decompress(e.payload).ok
                         /\ Len(decompress(e.payload).data) # e.uncompressed_length)
                        => /\ ~calls[c].ok
                           /\ calls[c].err = "length_mismatch"
                           /\ ~lastRecv.ok
                           /\ lastRecv.err = "length_mismatch"
                           /\ c = Len(calls)
                           /\ j = Len(calls[c].envs)
            /\ lastRecv.rb0
                 \o Flatten([c \in 1..Len(calls) |->
                        IF calls[c].ok
                        THEN Flatten([j \in 1..Len(calls[c].envs) |->
                                         EnvelopeData(calls[c].envs[j])])
                        ELSE <<>>])
               = TakenBytes \o wire.read_buffer

\* A recv() fetched a good compressed message, whose bytes it kept, and then
\* one whose envelope declared a wrong length.
C10_Witness ==
    /\ lastRecv.op = "recv" /\ wire.compressed
    /\ lastRecv.err = "length_mismatch"
    /\ Len(FetchCalls) = 2
    /\ FetchCalls[1].ok
    /\ FetchCalls[2].envs[1].uncompressed_length > 0
    /\ wire.read_buffer # <<>>

\* C6: in compressed mode every recv() of the loop-back pair returns exactly
\* the oldest message sent and not yet received, with the inner fragments and
\* inner sequence numbers of the plain framer, and once every message sent
\* has been received no envelope and no buffered byte is left unread.
C6_CompressionTransparency ==
    (lastRecv.op = "recv" /\ peer.compressed /\ lastRecv.known) =>
        /\ lastRecv.ok
        /\ lastRecv.data = lastRecv.expected
        /\ Len(lastRecv.log) = lastRecv.nfrag
        /\ \A i \in 1..Len(lastRecv.log) :
                lastRecv.log[i].seq = (lastRecv.s0 + i - 1) % 256
        /\ (sent = <<>> => c2s = <<>> /\ peer.read_buffer = <<>>)

\* The bytes of inner packet i of the last send, as appended to the out-buffer.
PacketBytes(i) ==
    to_bytes(3, Len(lastSend.log[i].body)) \o to_bytes(1, lastSend.log[i].seq)
        \o lastSend.log[i].body

\* C7 as claimed: every plain packet of size p of a compressed send is carried
\* by an outer fragment of its own, whose uncompressed_length is p if and only
\* if p > threshold and which otherwise holds the packet verbatim with
\* uncompressed_length 0.
C7_PerPacketThreshold ==
    (lastSend.op = "send" /\ wire.compressed /\ lastSend.ok) =>
        \A i \in 1..Len(lastSend.log) :
            \E j \in 1..Len(lastSend.outer) :
                /\ lastSend.outer[j].body = PacketBytes(i)
                /\ (lastSend.outer[j].uncompressed_length = Len(PacketBytes(i))
                        <=> Len(PacketBytes(i)) > wire.threshold)
                /\ (Len(PacketBytes(i)) <= wire.threshold =>
                        /\ lastSend.outer[j].uncompressed_length = 0
                        /\ lastSend.outer[j].payload = PacketBytes(i))

\* C7 (amended): every outer fragment a compressed send emits carries a slice
\* of the out-buffer of some size p <= MAX_PACKET; its uncompressed_length is
\* p and its payload the compressed slice when p > threshold, and it is 0 with
\* the slice stored verbatim when p <= threshold.  When the out-buffer held
\* only the packets of this send, the slices are those packets in order, and
\* the slice is one whole plain packet when they total fewer than MAX_PACKET
\* bytes.
C7_Threshold ==
    (lastSend.op = "send" /\ wire.compressed) =>
        /\ \A j \in 1..Len(lastSend.outer) :
             LET e == lastSend.outer[j]
                 p == Len(e.body)
             IN  /\ p <= MAX_PACKET
                 /\ e.length = Len(e.payload)
                 /\ (p > wire.threshold =>
                        /\ e.uncompressed_length = p
                        /\ e.payload # e.body
                        /\ decompress(e.payload) = [ok |-> TRUE, data |-> e.body])
                 /\ (p <= wire.threshold =>
                        e.uncompressed_length = 0 /\ e.payload = e.body)
        /\ LET packets == Flatten([i \in 1..Len(lastSend.log) |-> PacketBytes(i)])
               slices == Flatten([j \in 1..Len(lastSend.outer) |-> lastSend.outer[j].body])
           IN  lastSend.buffered = Len(packets) =>
                 /\ slices = Take(packets, Len(slices))
                 /\ (lastSend.ok => slices = packets)
                 /\ (lastSend.ok /\ Len(packets) < MAX_PACKET =>
                        Len(lastSend.outer) = 1 /\ lastSend.outer[1].body = PacketBytes(1))

\* One send emitted a compressed fragment and a verbatim, non-empty one, and
\* another carried a slice of exactly threshold bytes.
C7_Witness ==
    /\ lastSend.op = "send" /\ wire.compressed /\ lastSend.ok
    /\ wire.threshold = MidThreshold
    /\ \E j \in 1..Len(lastSend.outer) : lastSend.outer[j].uncompressed_length > 0
    /\ \E j \in 1..Len(lastSend.outer) :
          /\ lastSend.outer[j].uncompressed_length = 0
          /\ Len(lastSend.outer[j].body) = wire.threshold

\* C11: the first receive of the handshake framer accepts its first packet
\* whatever sequence r it carries while the framer's own counter is 0, and
\* adopts r + 1: the packets that follow in that message must continue from
\* r + 1 or the receive fails with the sequence error, and after a message of
\* n packets the client's next send (SSLRequest or HandshakeResponse41)
\* starts at (r + n) mod 256, which is r + 1 for a one-packet handshake.
\* Every later receive on that framer accepts exactly the packets that
\* continue the framer's counter.
C11_FirstRecvAdopts ==
    /\ (lastRecv.op = "handshake" /\ lastRecv.log # <<>>) =>
           LET log == lastRecv.log
               n == Len(log)
               Continuous == \A k \in 2..n : log[k].seq = (sess.r + k - 1) % 256
           IN  /\ lastRecv.s0 = 0
               /\ log[1].seq = sess.r
               /\ (sess.err = "sequence") <=> ~Continuous
               /\ Continuous =>
                      /\ lastSend.ok => lastSend.s0 = (sess.r + n) % 256
                      /\ ~lastSend.ok => wire.seq = (sess.r + n) % 256
    /\ lastRecv.op = "auth_reply" =>
           LET log == lastRecv.log
               Continuous == \A k \in 1..Len(log) :
                                 log[k].seq = (lastRecv.s0 + k - 1) % 256
           IN  (lastRecv.err = "sequence") <=> ~Continuous

C11_Witness ==
    /\ lastRecv.op = "auth_reply"
    /\ lastRecv.ok
    /\ sess.r = 255
    /\ lastSend.op = "connect"
    /\ lastSend.ok
    /\ lastSend.s0 = (255 + Len(split(sess.hello))) % 256
    /\ lastRecv.s0 = lastSend.s1

\* C12: the session's framer changes in one step only: the step of connect()
\* that reads the auth ACK through the handshake framer.  The new framer is
\* the compressed one exactly when COMPRESS is among the negotiated
\* capabilities, it is in place before any command is sent, and no later
\* step changes it.
C12_FramerSwitchedOnce ==
    /\ [](/\ sess.nops > 0 => sess.wire_class # "ProtoHandshake"
          /\ (sess.acked /\ sess.variant # "NativePasswordHandshake") =>
                 /\ sess.wire_class =
                        IF COMPRESS \in sess.capabilities THEN "ProtoCompressed"
                        ELSE "ProtoPlain"
                 /\ wire.compressed = (COMPRESS \in sess.capabilities)
          /\ sess.wire_class = "ProtoHandshake" => ~wire.compressed)
    /\ [][(sess'.wire_class # sess.wire_class \/ wire'.compressed # wire.compressed) =>
              /\ sess.wire_class = "ProtoHandshake"
              /\ ~sess.acked
              /\ sess'.acked
              /\ sess.nops = 0
              /\ lastRecv'.op = "auth_reply"
              /\ lastRecv'.ok
              /\ sess'.reply.type \in {"OK", "EOF"}]_vars

C12_Witness ==
    /\ sess.wire_class = "ProtoCompressed"
    /\ wire.compressed
    /\ sess.nops > 1
    /\ pc = "idle"
    /\ sess.result.type = "ResultSet"

\* The capability bits in use: the client_flag sent to the server and the
\* set handed to the reply parsers.
ActiveCapabilities == sess.client_flag \cup parse_capabilities(sess)

\* C13 as stated: every active capability bit is in the intersection of the
\* capabilities the client declared and those the server advertised.
C13_Intersection ==
    ActiveCapabilities \subseteq (sess.declared \cap sess.capabilities_server)

\* C13, amended: every active capability bit is advertised by the server,
\* and is declared by the client or is CONNECT_WITH_DB when connect() was
\* given a database or SSL when connect() was given a TLS callback.
C13_ActiveCapabilities ==
    ActiveCapabilities \subseteq
        (sess.capabilities_server
            \cap (sess.declared
                    \cup (IF sess.database.given THEN {CONNECT_WITH_DB} ELSE {})
                    \cup (IF sess.enable_ssl THEN {SSL} ELSE {})))

C13_Witness ==
    /\ sess.acked
    /\ sess.database.given
    /\ CONNECT_WITH_DB \in sess.client_flag
    /\ CONNECT_WITH_DB \notin sess.declared
    /\ DEPRECATE_EOF \in sess.declared
    /\ DEPRECATE_EOF \notin sess.capabilities_server
    /\ DEPRECATE_EOF \notin ActiveCapabilities

\* C14: once the auth ACK has been received, no step of the session (the
\* send and the reply reading of ping, reset, change_database, query and
\* quit, failed ones included) changes the negotiated capabilities or the
\* set its packet factory classifies with: both stay what they were at the
\* ACK.
C14_CapabilitiesFrozen ==
    /\ [](sess.acked =>
              /\ sess.capabilities = sess.frozen
              /\ parse_capabilities(sess) = sess.frozen)
    /\ [][sess.acked =>
              /\ sess'.acked
              /\ sess'.capabilities = sess.capabilities
              /\ sess'.factory = sess.factory
              /\ sess'.capabilities_server = sess.capabilities_server]_vars

C14_Witness ==
    /\ sess.acked
    /\ sess.frozen # {}
    /\ sess.nops > 1
    /\ pc = "idle"
    /\ sess.op = "change_database"
    /\ ~sess.result.ok
    /\ lastSend.ok
    /\ parse_capabilities(sess) = sess.frozen

\* C15: when connect() was given a database and the server's handshake lacks
\* CONNECT_WITH_DB, or was given a TLS callback and the handshake lacks SSL,
\* connect() fails with no byte written to the channel (no SSLRequest, no
\* HandshakeResponse41) and without the TLS callback having been invoked.
C15_RejectedBeforeWrite ==
    LET K(h) ==
            (/\ h.ok
             /\ \/ sess.database.given /\ CONNECT_WITH_DB \notin h.capabilities
                \/ sess.enable_ssl /\ SSL \notin h.capabilities)
            => /\ pc = "failed"
               /\ ~sess.acked
               /\ c2s = <<>>
               /\ ~lastSend.ok
               /\ sess.ssl_request = <<>>
               /\ sess.response = <<>>
               /\ \A i \in DOMAIN sess.events : sess.events[i] = "recv_handshake"
    IN  pc \notin {"connect", "hello"} => K(parse_handshake(sess.hello))

C15_Witness ==
    /\ pc = "failed"
    /\ sess.variant = "ProtoMySQLBase"
    /\ sess.database.given
    /\ CONNECT_WITH_DB \notin sess.capabilities_server
    /\ PLUGIN_AUTH \in sess.capabilities_server
    /\ sess.err = "CONNECT_WITH_DB not supported"
    /\ sess.events = <<"recv_handshake">>
    /\ c2s = <<>>

\* C16: when TLS is requested and offered, the handshake runs in the order
\* handshake received, SSLRequest written, TLS callback invoked once,
\* HandshakeResponse41 written, auth reply read; the SSLRequest is 32 bytes
\* (flags, max_packet, charset, 23 zero bytes) and is the first 32 bytes of
\* the response that follows; no response byte is written before the
\* callback has returned.
C16_Order == <<"recv_handshake", "ssl_request", "enable_ssl", "response", "auth_reply">>

C16_TlsOrder ==
    (sess.variant = "NativePasswordHandshake" /\ sess.enable_ssl) =>
        /\ Len(sess.events) <= Len(C16_Order)
        /\ sess.events = Take(C16_Order, Len(sess.events))
        /\ (pc = "tls") <=> (sess.events = Take(C16_Order, 2))
        /\ pc = "tls" => /\ sess.response = <<>>
                         /\ c2s # <<>>
                         /\ lastSend.m = c2s
        /\ Len(sess.events) >= 2 =>
               /\ SSL \in sess.capabilities_server
               /\ SSL \in sess.client_flag
               /\ Len(sess.ssl_request) = 32
               /\ Slice(sess.ssl_request, 0, 4) = to_bytes(4, FlagValue(sess.client_flag))
               /\ Slice(sess.ssl_request, 4, 4) = to_bytes(4, MAX_PACKET)
               /\ sess.ssl_request[9] = CHARSET_UTF8MB4
               /\ \A i \in 10..32 : sess.ssl_request[i] = 0
        /\ Len(sess.events) >= 4 =>
               /\ Len(sess.response) > 32
               /\ Take(sess.response, 32) = sess.ssl_request
        /\ sess.acked => sess.events = C16_Order

C16_Witness ==
    /\ sess.variant = "NativePasswordHandshake"
    /\ sess.enable_ssl
    /\ sess.acked
    /\ pc = "done"
    /\ sess.events = C16_Order
    /\ Len(sess.ssl_request) = 32
    /\ Take(sess.response, 32) = sess.ssl_request

\* C17: when the first byte of the server's handshake message is not 10,
\* connect() fails, with the protocol-version error once the message has
\* been received; neither an SSLRequest nor a HandshakeResponse41 is
\* written, and the handshake framer is not replaced by a command framer.
C17_ProtocolVersion ==
    (pc \notin {"connect", "hello"} /\ Take(sess.hello, 1) # <<10>>) =>
        /\ pc = "failed"
        /\ ~sess.acked
        /\ c2s = <<>>
        /\ ~lastSend.ok
        /\ sess.ssl_request = <<>>
        /\ sess.response = <<>>
        /\ sess.wire_class = "ProtoHandshake"
        /\ ~wire.compressed
        /\ (lastRecv.op = "handshake" /\ sess.events # <<>>
               /\ sess.err \notin {"sequence", "eof", "io"})
           => sess.err = "protocol_version"

C17_Witness ==
    /\ pc = "failed"
    /\ sess.hello = <<9>>
    /\ sess.variant = "ProtoMySQLBase"
    /\ sess.r = 255
    /\ sess.err = "protocol_version"
    /\ sess.events = <<"recv_handshake">>
    /\ sess.wire_class = "ProtoHandshake"
    /\ s2c = <<>>
    /\ c2s = <<>>

\* C18: a non-empty reply body is classified by the first rule that
\* applies: (1) first byte 0xFE and fewer than 9 bytes: OK when
\* DEPRECATE_EOF is among the capabilities, else EOF; (2) first byte 0x00:
\* OK; (3) first byte 0xFF: ERR; (4) first byte 0xFB when INFILE was asked
\* for: INFILE; (5) anything else, 0xFE with 9 bytes or more and 0xFB when
\* INFILE was not asked for included: no type and the body unchanged.  A body
\* its rule's parser cannot read raises that parser's exception.
C18_Classification ==
    pc = "classified" =>
        LET d == sess.data
            res == sess.result
            expected ==
                IF d[1] = 254 /\ Len(d) < 9
                THEN IF DEPRECATE_EOF \in sess.capabilities THEN "OK" ELSE "EOF"
                ELSE IF d[1] = 0 THEN "OK"
                ELSE IF d[1] = 255 THEN "ERR"
                ELSE IF d[1] = 251 /\ sess.include_infile THEN "INFILE"
                ELSE "None"
            branch ==
                IF d[1] = 254 /\ Len(d) < 9 THEN 1
                ELSE IF d[1] = 0 THEN 2
                ELSE IF d[1] = 255 THEN 3
                ELSE IF d[1] = 251 /\ sess.include_infile THEN 4
                ELSE 5
        IN  /\ d # <<>>
            /\ res.rule = branch
            /\ res.ok => res.type = expected
            /\ ~res.ok => /\ res.type = "raised"
                          /\ expected # "None"
                          /\ res.packet = NoPacket
            /\ expected = "None" => /\ res.ok
                                    /\ res.packet = [NoPacket EXCEPT !.data = d]
            /\ (res.ok /\ expected # "None") => /\ res.packet.header = d[1]
                                                /\ res.packet.data = <<>>

C18_Witness ==
    /\ pc = "classified"
    /\ sess.classifier = "readers"
    /\ sess.include_infile
    /\ sess.data[1] = 254
    /\ Len(sess.data) = 9
    /\ DEPRECATE_EOF \in sess.capabilities
    /\ sess.result.ok
    /\ sess.result.type = "None"
    /\ sess.result.packet.data = sess.data

\* The errors with which the framer's recv() fails.
FramerErrors == {"io", "eof", "sequence", "overflow"}

\* C19: ping, reset and change_database read exactly one reply message: a
\* reply classified OK or EOF is returned, a reply classified ERR is raised
\* as the server error carrying the parsed ERR packet, and any other reply
\* (data, an INFILE request) is raised as an unexpected reply; a message the
\* server sent after the reply stays unread.  (Stated for replies the framer
\* delivers, on a channel that held nothing before the command.)
C19_AckCommands ==
    (/\ pc = "idle"
     /\ sess.op \in {"ping", "reset", "change_database"}
     /\ sess.script # <<>>
     /\ ~sess.stale
     /\ sess.result.err \notin FramerErrors) =>
        LET res == sess.result
            first == sess.script[1]
        IN  /\ res.nrecv = 1
            /\ res.ncols = 0 /\ res.ncolumns = 0 /\ res.nrows = 0
            /\ first = OKm => /\ res.ok
                              /\ res.type = "OK"
                              /\ res.packet.header = 0
                              /\ res.packet.status_flags = 2
            /\ first = EOFm => /\ res.ok
                               /\ res.type = IF DEPRECATE_EOF \in sess.frozen
                                             THEN "OK" ELSE "EOF"
                               /\ res.packet.header = 254
            /\ first = ERRm => /\ ~res.ok
                               /\ res.err = "ValueError"
                               /\ res.type = "ERR"
                               /\ res.packet.code = 1045
                               /\ res.packet.text = <<110, 111>>
            /\ first \in {INFILEm, Row1} => /\ ~res.ok
                                            /\ res.err = "TypeError"
            /\ (Len(sess.script) > 1) <=> (s2c # <<>> \/ wire.read_buffer # <<>>)

C19_Witness ==
    /\ pc = "idle"
    /\ sess.op = "ping"
    /\ sess.script = <<ERRm>>
    /\ ~sess.stale
    /\ sess.result.nrecv = 1
    /\ sess.result.err = "ValueError"
    /\ sess.result.packet.code = 1045
    /\ s2c = <<>>

C21_RowsDelivered ==
    (/\ pc = "idle"
     /\ sess.op = "query"
     /\ sess.script \in RowScripts
     /\ ~sess.stale
     /\ sess.result.err \notin FramerErrors) =>
        LET res == sess.result
            n == sess.script[1][1]
            rows == SubSeq(sess.script, n + 2, Len(sess.script) - 1)
        IN  /\ res.ok
            /\ res.type = "ResultSet"
            /\ res.ncolumns = n
            /\ res.nrows = Len(rows)
            /\ res.nrecv = Len(sess.script)
            /\ s2c = <<>>
            /\ wire.read_buffer = <<>>
            /\ \A i \in DOMAIN rows : /\ row_values(rows[i], n).ok
                                     /\ Len(row_values(rows[i], n).values) = n

\* C22: the name-to-index mapping of a result set maps each name_virtual to
\* the position of the first column of that name, so that row[name] is the
\* value of the first such column.
C22_FirstOccurrence ==
    LET first(nm) == CHOOSE i \in DOMAIN sess.columns :
                         /\ sess.columns[i] = nm
                         /\ \A j \in 1..(i - 1) : sess.columns[j] # nm
    IN  /\ pc \in {"rows", "value"} =>
               /\ DOMAIN sess.names = {sess.columns[i] : i \in DOMAIN sess.columns}
               /\ \A nm \in DOMAIN sess.names : sess.names[nm] = first(nm) - 1
        /\ pc = "value" => sess.value = sess.data[first(sess.item)]

\* C23: within one session the next command is not issued before the reply
\* to the previous one has been drained, also when two tasks call session
\* operations concurrently: at most one command is outstanding, and each
\* caller receives the reply to its own command.
C23_Serialized ==
    /\ Cardinality({t \in Tasks : sess.tasks[t].pc = "awaiting"}) <= 1
    /\ \A t \in Tasks : sess.tasks[t].pc = "done" =>
           /\ sess.tasks[t].result.ok
           /\ sess.tasks[t].result.packet.affected_rows = t

\* C24: after a command has failed in the framer (sequence error, framing
\* error, IO error) the session is closed: no later command on that session
\* writes to the channel or waits for a reply.
C24_ClosedAfterError ==
    (/\ lastRecv.op \in {"ping", "reset", "change_database", "query"}
     /\ lastRecv.err \in FramerErrors)
        => /\ pc = "idle"
           /\ c2s = <<>>

\* C25: when a query fails with an ERR packet of the server, every message
\* of its reply has been read (no frame on the channel, no byte in the
\* framer's buffer); the next command on the session, on the plain and on
\* the compressed wire, is sent at sequence 0, and its reply is read as on
\* a session that has run no command before.
C25_ErrDrained ==
    LET failed(r) == r.err = "ValueError"
        fresh == wire_send([f |-> NewFramer(wire.compressed, wire.threshold, 0, 0),
                            out |-> <<>>, inp |-> <<>>], lastSend.m).io
        served == server_send_all([fresh EXCEPT !.out = <<>>], sess.script)
        K(k) == /\ sess.result.ok = k.ok
                /\ sess.result.err = k.err
                /\ sess.result.type = k.type
                /\ sess.result.packet = k.packet
                /\ sess.result.nrecv = k.nrecv
                /\ sess.result.nrows = k.nrows
                /\ wire = k.io.f
                /\ s2c = k.io.inp
    IN  /\ (pc = "idle" /\ sess.op = "query" /\ failed(sess.result) /\ ~sess.stale) =>
               /\ sess.result.type = "ERR"
               /\ sess.result.nrecv = Len(sess.script)
               /\ s2c = <<>>
               /\ wire.read_buffer = <<>>
        /\ (pc = "sent" /\ sess.op = "query" /\ failed(sess.previous)) =>
               /\ lastSend.ok
               /\ c2s[4] = 0
               /\ c2s = fresh.out
               /\ wire = fresh.f
        /\ (pc = "idle" /\ sess.op = "query" /\ failed(sess.previous)) =>
               K(standard_query(sess, [fresh EXCEPT !.inp = served.out]))

\* Witness: a query was refused with ERR on the compressed wire, and the
\* next query on the same session returned its result set.
C25_Witness ==
    /\ pc = "idle"
    /\ sess.op = "query"
    /\ sess.previous.type = "ERR"
    /\ sess.previous.err = "ValueError"
    /\ wire.compressed
    /\ sess.result.ok
    /\ sess.result.type = "ResultSet"
    /\ sess.result.nrows = 2

\* C26: a command (ping, reset, change_database, query, quit) writes to the
\* channel only on a session whose handshake was completed with an auth
\* ACK and on which quit has not been called.
C26_Lifecycle ==
    [][(sess'.nops > sess.nops /\ c2s' # c2s) =>
           /\ sess.acked
           /\ pc # "closed"]_vars

\* C27: for every integer n below 2^64, Reader.int_lenenc on the bytes that
\* Writer.int_lenenc(n) produced, followed by any other bytes, returns n and
\* leaves exactly the other bytes.
C27_LenencRoundTrip ==
    /\ pc \in {"written", "read"} => sess.written.ok
    /\ pc = "read" =>
           /\ sess.result.ok
           /\ sess.result.value = sess.value
           /\ sess.result.rest = sess.buffer

\* Witness: the largest integer was written in the eight-byte form and read
\* back in front of other bytes.
C27_Witness ==
    /\ pc = "read"
    /\ sess.value = [i \in 1..LenencWidth |-> 255]
    /\ Len(sess.written.data) = 9
    /\ sess.buffer = <<252, 1>>
    /\ sess.result.value = sess.value

\* C28: the writer chooses the smallest form that fits: one byte below 251,
\* tag 0xFC and two bytes up to 65535, tag 0xFD and three bytes up to
\* 16777215, tag 0xFE and eight bytes from 16777216 on.
C28_SmallestTag ==
    pc \in {"written", "read"} =>
        LET n == sess.value
            data == sess.written.data
        IN  IF Less(n, Wide(<<251>>)) THEN Len(data) = 1
            ELSE IF Less(n, Wide(<<0, 0, 1>>)) THEN data[1] = 252 /\ Len(data) = 3
            ELSE IF Less(n, Wide(<<0, 0, 0, 1>>)) THEN data[1] = 253 /\ Len(data) = 4
            ELSE data[1] = 254 /\ Len(data) = 9

\* C29: the reader reports an error when int(n), bytes(n) or bytes_lenenc
\* find fewer bytes than requested, when the lead byte of a lenenc integer
\* is 0xFB or 0xFF, and when bytes_null finds no terminator; a bytes_null
\* that succeeds leaves what follows the terminator.
C29_ReaderErrors ==
    pc = "done" =>
        LET buffer == sess.buffer
            n == Reader_read_lenenc_int(buffer)
        IN  /\ (sess.op \in {"int", "bytes"} /\ Len(buffer) < sess.length) => ~sess.result.ok
            /\ (sess.op = "bytes_lenenc" /\ (~n.ok \/ Len(n.rest) < SliceLength(n.value)))
                   => ~sess.result.ok
            /\ (sess.op = "int_lenenc" /\ buffer # <<>> /\ buffer[1] \in {251, 255})
                   => ~sess.result.ok
            /\ (sess.op = "bytes_null" /\ \A i \in DOMAIN buffer : buffer[i] # 0)
                   => ~sess.result.ok
            /\ (sess.op = "bytes_null" /\ sess.result.ok) =>
                   /\ Len(sess.result.value) < Len(buffer)
                   /\ buffer[Len(sess.result.value) + 1] = 0
                   /\ sess.result.value \o <<0>> \o sess.result.rest = buffer

\* The null-terminated strings of a byte string, in order.
RECURSIVE NullStrings(_)
NullStrings(data) ==
    IF data = <<>> THEN <<>>
    ELSE <<Take(data, NullAt(data))>> \o NullStrings(Drop(data, NullAt(data) + 1))

\* What an encoded HandshakeResponse41 holds after the auth response: the
\* fixed part is 32 bytes, the user name ends at the first 0 after it, and
\* the auth response is prefixed by its length.
ResponseStrings(response) ==
    LET user == Drop(response, 32)
        auth == Drop(user, NullAt(user) + 1)
    IN  NullStrings(Drop(auth, 1 + auth[1]))

\* C30: the encoded HandshakeResponse41 holds the null-terminated database
\* exactly when CONNECT_WITH_DB is in its client_flag, and the
\* null-terminated plugin name exactly when PLUGIN_AUTH is in its
\* client_flag.
C30_ResponseFields ==
    sess.response # <<>> =>
        LET fields == ResponseStrings(sess.response)
            db == CONNECT_WITH_DB \in sess.client_flag
            plugin == PLUGIN_AUTH \in sess.client_flag
        IN  /\ fields = (IF db THEN <<sess.database.name>> ELSE <<>>)
                             \o (IF plugin THEN <<MYSQL_NATIVE_PASSWORD>> ELSE <<>>)
            /\ db <=> sess.database.given

\* The frames of a plain send as they lie on the channel.
FrameBytes(log) ==
    Flatten([i \in 1..Len(log) |->
                to_bytes(3, Len(log[i].body)) \o to_bytes(1, log[i].seq) \o log[i].body])

\* C31: each command is sent as exactly one message whose body is the
\* command code followed by its payload: ping 0x0E, reset 0x1F, quit 0x01,
\* change_database 0x02 and the encoded name, query 0x03 and the statement
\* encoded in the negotiated charset; quit returns after its send and reads
\* no reply.
C31_CommandBodies ==
    sess.command.sent =>
        LET op == sess.command.op
            code == CASE op = "ping" -> 14 [] op = "reset" -> 31 [] op = "quit" -> 1
                      [] op = "change_database" -> 2 [] op = "query" -> 3
            text == Writer_to_bytes(sess.command.text, PYTHON_CHARSETS(sess.charset))
            log == lastSend.log
            k == Len(log)
        IN  /\ text.ok
            /\ lastSend.m = <<code>> \o text.data
            /\ Len(sent) >= 1 /\ Len(sent) <= sess.command.n
            /\ sent[Len(sent)] = <<code>> \o text.data
            /\ k >= 1
            /\ \A i \in 1..(k - 1) : Len(log[i].body) = MAX_PACKET
            /\ Len(log[k].body) < MAX_PACKET
            /\ Flatten([i \in 1..k |-> log[i].body]) = <<code>> \o text.data
            /\ (~wire.compressed /\ pc \in {"awaiting", "returned"} /\ s2c = <<>>) =>
                   c2s = FrameBytes(log)
            /\ op = "quit" => /\ lastSend.ok => pc = "returned"
                              /\ s2c = <<>>
                              /\ lastRecv.op # "quit"

\* Witness: on a session that negotiated latin1 a query with a non-ASCII
\* statement has been sent, and a quit has returned without a read.
C31_Witness ==
    /\ pc = "returned"
    /\ sess.charset = "latin1"
    /\ sess.command.op = "quit"
    /\ sess.command.n = 2
    /\ sent = <<(<<3, 97, 233>>), (<<1>>)>>
    /\ lastRecv.op = "query"

\* C32: when the reply to the HandshakeResponse41 is an ERR packet, connect
\* fails with the server error carrying that packet, the framer is still
\* the handshake framer, and connect writes nothing more.
C32_AuthErr ==
    (pc = "failed" /\ sess.reply.type = "ERR") =>
        /\ sess.err = "ValueError"
        /\ sess.reply.packet.header = 255
        /\ sess.reply.packet.code = 1045
        /\ ~sess.acked
        /\ sess.wire_class = "ProtoHandshake"
        /\ ~wire.compressed
        /\ \A i \in DOMAIN sess.events : sess.events[i] # "initialize_wire"
        /\ c2s = <<>>
        /\ sess.nops = 0

\* Witness: a session class that negotiated COMPRESS received ERR in reply
\* to its response.
C32_Witness ==
    /\ pc = "failed"
    /\ sess.reply.type = "ERR"
    /\ sess.variant = "ProtoMySQLBase"
    /\ COMPRESS \in sess.capabilities
    /\ sess.response # <<>>
    /\ sess.err = "ValueError"

\* C33: a session constructed with compressed = False never negotiates
\* COMPRESS and uses the plain framer after the auth ACK, also when the
\* server advertises COMPRESS; the compressed framer is installed only when
\* the caller asked for compression and the server offers it.
C33_CompressionOptIn ==
    sess.variant \in {"ProtoMySQLBase", "ProtoMySQL"} =>
        /\ ~sess.compressed => /\ COMPRESS \notin sess.capabilities
                               /\ COMPRESS \notin sess.client_flag
                               /\ sess.acked => sess.wire_class = "ProtoPlain"
        /\ sess.wire_class = "ProtoCompressed" =>
               /\ sess.compressed
               /\ COMPRESS \in sess.capabilities_server

\* The envelopes read during the last recv(), in order.
OuterEnvelopes == Flatten([j \in 1..Len(FetchCalls) |-> FetchCalls[j].envs])

\* C34: a reply stream that runs past sequence 255 is accepted: when every
\* fragment recv() read was complete and carried the previous number plus
\* one modulo 256 (the framer's counter for the first), and in compressed
\* mode every envelope it read was whole, well-formed and numbered the same
\* way on the outer counter, recv() succeeds and leaves the counters at the
\* last numbers plus one modulo 256, so that 0 follows 255.
C34_SequenceWrap ==
    LET log == lastRecv.log
        envs == OuterEnvelopes
        inner == /\ log # <<>>
                 /\ \A i \in 1..Len(log) :
                        /\ log[i].hdr /\ log[i].got
                        /\ log[i].seq = (lastRecv.s0 + i - 1) % 256
        outer == /\ \A j \in 1..Len(FetchCalls) :
                        FetchCalls[j].err \in {"none", "sequence"}
                 /\ \A i \in 1..Len(envs) :
                        /\ envs[i].read
                        /\ envs[i].seq = (lastRecv.sc0 + i - 1) % 256
    IN  (lastRecv.op = "recv" /\ inner /\ (wire.compressed => outer)) =>
            /\ lastRecv.ok
            /\ wire.seq = (lastRecv.s0 + Len(log)) % 256
            /\ log[Len(log)].seq = 255 => wire.seq = 0
            /\ wire.compressed =>
                   /\ wire.seq_compressed = (lastRecv.sc0 + Len(envs)) % 256
                   /\ (envs # <<>> /\ envs[Len(envs)].seq = 255) => wire.seq_compressed = 0

\* In compressed mode a message arrived with inner sequence 255 in two
\* envelopes with the outer sequences 255 and 0: the inner counter is back
\* at 0 and the outer one at 1.
C34_Witness ==
    /\ lastRecv.op = "recv" /\ lastRecv.ok /\ wire.compressed
    /\ lastRecv.s0 = 255 /\ lastRecv.sc0 = 255
    /\ Len(lastRecv.log) = 1 /\ lastRecv.log[1].seq = 255
    /\ Len(OuterEnvelopes) = 2
    /\ OuterEnvelopes[1].seq = 255 /\ OuterEnvelopes[2].seq = 0
    /\ wire.seq = 0 /\ wire.seq_compressed = 1

\* C35: when recv() fails with a sequence mismatch, the framer's sequence
\* counter has the value it had before that recv(), and a reset() called
\* after it sets the counter to 0 (in compressed mode the outer one too).
C35_CounterAfterMismatch ==
    /\ (lastRecv.op = "recv" /\ lastRecv.err = "sequence") => wire.seq = lastRecv.s0
    /\ lastRecv.op = "reset" =>
           /\ wire.seq = 0
           /\ wire.compressed => wire.seq_compressed = 0

\* A recv() that expected number 255 read a full fragment with that number
\* and then one with a wrong number; reset() was called after the failure.
C35_Witness ==
    /\ lastRecv.op = "reset" /\ lastRecv.err = "sequence" /\ ~wire.compressed
    /\ lastRecv.s0 = 255
    /\ Len(lastRecv.log) = 2 /\ lastRecv.log[1].seq = 255 /\ lastRecv.log[2].seq # 0
    /\ wire.seq = 0

\* C36: a recv() of the plain framer that returns has taken from the front
\* of the channel, for each fragment, 4 header bytes and the declared number
\* of body bytes, and nothing else: every fragment but the last has length
\* MAX_PACKET, the last one is shorter, the message is the bodies in order,
\* and the bytes behind the short fragment are still in the channel.
C36_ReadsToShortFragment ==
    [][(/\ ~wire.compressed
        /\ Len(s2c') < Len(s2c)
        /\ lastRecv'.op = "recv"
        /\ lastRecv'.ok) =>
            LET log == lastRecv'.log
            IN  /\ log # <<>>
                /\ \A i \in 1..Len(log) :
                       /\ log[i].hdr /\ log[i].got
                       /\ Len(log[i].body) = log[i].length
                       /\ i < Len(log) => log[i].length = MAX_PACKET
                       /\ i = Len(log) => log[i].length < MAX_PACKET
                /\ lastRecv'.data = Flatten([i \in 1..Len(log) |-> log[i].body])
                /\ s2c = TakenBytes' \o s2c'
                /\ Len(s2c) - Len(s2c') = 4 * Len(log) + Len(lastRecv'.data)]_vars

\* A message of a full and a short fragment was received while the fragment
\* of a following message was in the channel, where it still is.
C36_Witness ==
    /\ lastRecv.op = "recv" /\ lastRecv.ok /\ ~wire.compressed
    /\ Len(lastRecv.log) = 2
    /\ Len(lastRecv.data) = MAX_PACKET + 2
    /\ Len(s2c) = 4 + MAX_PACKET
    /\ nsent = MaxFragments

\* The inner packets a send() framed, as the bytes it appended to the
\* out-buffer, and the envelopes it wrote, as the bytes on the channel.
InnerFrames(log) ==
    Flatten([i \in 1..Len(log) |->
                to_bytes(3, Len(log[i].body)) \o to_bytes(1, log[i].seq) \o log[i].body])

EnvelopeBytes(outer) ==
    Flatten([i \in 1..Len(outer) |->
                to_bytes(3, outer[i].length) \o to_bytes(1, outer[i].seq)
                \o to_bytes(3, outer[i].uncompressed_length) \o outer[i].payload])

\* C37: in compressed mode a send() that completes leaves the out-buffer
\* empty and has written, in envelopes, the bytes the buffer held before
\* followed by the packets it framed; a recv() after which every message the
\* server framed and sent has been received leaves the in-buffer empty; and
\* reset() changes neither buffer.
C37_Buffers ==
    [][/\ (/\ wire.compressed
           /\ lastSend.op # "send" /\ lastSend'.op = "send"
           /\ lastSend'.ok) =>
               LET outer == lastSend'.outer
               IN  /\ wire'.write_buffer = <<>>
                   /\ Flatten([i \in 1..Len(outer) |-> outer[i].body])
                          = wire.write_buffer \o InnerFrames(lastSend'.log)
                   /\ \A i \in 1..Len(outer) :
                          outer[i].body = IF outer[i].uncompressed_length > 0
                                          THEN decompress(outer[i].payload).data
                                          ELSE outer[i].payload
                   /\ c2s' = c2s \o EnvelopeBytes(outer)
                   /\ wire'.read_buffer = wire.read_buffer
       /\ (/\ wire'.compressed
           /\ lastRecv'.op = "recv" /\ lastRecv'.known
           /\ srv'.clean /\ srv'.pending = <<>> /\ sent' = <<>>) =>
               wire'.read_buffer = <<>>
       /\ (lastRecv.op = "recv" /\ lastRecv'.op = "reset") =>
               /\ wire'.read_buffer = wire.read_buffer
               /\ wire'.write_buffer = wire.write_buffer]_vars

\* A compressed framer was reset while its in-buffer held an unread message
\* and its out-buffer bytes of an earlier write(); the send() that followed
\* emitted the written bytes with its own packet and emptied the out-buffer,
\* and the unread message is still in the in-buffer.
C37_Witness ==
    /\ wire.compressed
    /\ lastRecv.op = "reset"
    /\ lastSend.op = "send" /\ lastSend.ok
    /\ lastSend.buffered > Len(InnerFrames(lastSend.log))
    /\ wire.write_buffer = <<>>
    /\ wire.read_buffer # <<>>
    /\ c2s # <<>>

\* C38: once connect() has received a well-formed protocol-10 handshake,
\* with or without PLUGIN_AUTH, that it does not reject for the charset, the
\* database or TLS, it has an auth challenge and goes on to write the
\* HandshakeResponse41: it does not fail before the response is written
\* (unless the TLS callback fails).
C38_ResponseReached ==
    LET K(h) ==
            (/\ h.ok
             /\ sess.capabilities_server = h.capabilities
             /\ sess.charset_known
             /\ sess.database.given => CONNECT_WITH_DB \in h.capabilities
             /\ sess.enable_ssl => SSL \in h.capabilities)
            => /\ sess.auth_data.given
               /\ (pc = "failed" /\ sess.response = <<>>) => sess.err = "SSLError"
    IN  pc \notin {"connect", "hello"} => K(parse_handshake(sess.hello))

====
